---- MODULE Spec2Model ----
(***************************************************************************)
(* Outbound dialer: the call state store (storage.py), the dial worker     *)
(* (call_manager.py), the provider client (telnyx_client.py) and the       *)
(* webhook state machine with its AMD fallback timers (app.py).            *)
(*                                                                         *)
(* Every storage function runs under storage.lock and is one atomic step.  *)
(* A webhook request, an AMD fallback timer and the dial worker are        *)
(* threads: each is a sequence of such steps, and the steps of different   *)
(* threads interleave freely.  A provider command (make_call,              *)
(* transfer_call, play_audio, hangup_call) is one step of its own, taken   *)
(* outside every lock, whose success the provider decides.                 *)
(*                                                                         *)
(* The provider assigns call_control_ids; the model names the call placed  *)
(* for position i of the campaign's number list by i.                      *)
(***************************************************************************)
EXTENDS Integers, Sequences, FiniteSets, TLC

\* ---------------------------------------------------------------- bounds
MaxNumbers == 2
MaxHandlers == 2
MaxEvents == 2
MaxAnswered == 2

CallIds == 1..MaxNumbers
HandlerIds == 1..MaxHandlers
TimerId(c, k) == MaxHandlers + (c - 1) * MaxAnswered + k
TimerIds == { TimerId(c, k) : c \in CallIds, k \in 1..MaxAnswered }
ThreadIds == HandlerIds \cup TimerIds
IsTimer(t) == t \in TimerIds

\* ------------------------------------------------------- phone numbers
TransferNumber == "+15559"
CampaignAudio == "campaign.mp3"
Phones == {"+15551", "15551"}

\* telnyx_client._normalize_number: the digits, with one leading "+".
_normalize_number(n) == IF n = "15551" THEN "+15551" ELSE n

StartContexts == {"dashboard", "scheduler"}
AmdResults == {"human", "machine", "fax", "not_sure", "other"}

VARIABLES
    call_states,           \* storage.call_states: call id -> record
    campaign,              \* storage.campaign
    dnc,                   \* the numbers of logs/dnc_list.json
    active_transfer_cids,  \* storage._active_transfer_cids
    transfer_pause_event,  \* storage._transfer_pause_event: TRUE = set (open)
    call_complete_events,  \* storage._call_complete_events: the registered ids
    complete_set,          \* ids whose registered threading.Event has been set
    amd_timers,            \* app._amd_timers: call id -> timer thread (0: none)
    history,               \* logs/call_history.json: the persisted entries
    thr,                   \* webhook request threads and AMD timer threads
    worker,                \* the dial worker thread (_dial_worker): its position, the
                           \* batch windows begun, how its last waits ended
    place,                 \* the _place_single_call threads of a batch
    admin,                 \* the /stop request thread, and whether it found the
                           \* dial loop blocked on the gate
    placed,                \* provider: the make_call of each position
    cmds,                  \* provider: commands received per call id
    dialed_by,             \* increment_dialed() calls made for each position
    dnc_listed,            \* positions whose number was listed when is_dnc() ran
    delivered,             \* events handed to the webhook, per call id
    nAnswered,             \* timers created so far, per call id
    env,                   \* what the environment of this run may do
    dialer,                \* call_manager._worker_thread, the requests that start a
                           \* campaign and a worker started beside a live one
    legs                   \* transfer legs: their events delivered, and the loop of
                           \* each request that handles one

vars == << call_states, campaign, dnc, active_transfer_cids, transfer_pause_event,
           call_complete_events, complete_set, amd_timers, history, thr, worker,
           place, admin, placed, cmds, dialed_by, dnc_listed, delivered,
           nAnswered, env, dialer, legs >>

\* ------------------------------------------------------------ storage.py
NoState ==
    [present |-> FALSE, number |-> "", status |-> "none", machine_detected |-> "none",
     transferred |-> FALSE, voicemail_dropped |-> FALSE, amd_received |-> FALSE,
     amd_result |-> "none", transcript |-> << >>, hangup_cause |-> "none"]

\* storage.create_call_state: assigns a fresh record, whatever was there.
create_call_state(cs, c, number) ==
    [cs EXCEPT ![c] =
        [present |-> TRUE, number |-> number, status |-> "initiated",
         machine_detected |-> "none", transferred |-> FALSE,
         voicemail_dropped |-> FALSE, amd_received |-> FALSE, amd_result |-> "none",
         transcript |-> << >>, hangup_cause |-> "none"]]

\* storage.get_call_state: a copy of the record, or None.
get_call_state(c) == call_states[c]

\* storage.update_call_state: merges the fields when the id is present.
update_call_state(cs, c, fields) ==
    IF cs[c].present
    THEN [cs EXCEPT ![c] =
            [f \in DOMAIN cs[c] |-> IF f \in DOMAIN fields THEN fields[f] ELSE cs[c][f]]]
    ELSE cs

\* storage.mark_transferred: the value returned.
mark_transferred_wins(cs, c) == cs[c].present /\ ~cs[c].transferred

\* storage.mark_transferred: the store afterwards.
mark_transferred(cs, c) ==
    IF mark_transferred_wins(cs, c)
    THEN [cs EXCEPT ![c].transferred = TRUE, ![c].status = "transferred"]
    ELSE cs

\* storage.mark_voicemail_dropped: the value returned.
mark_voicemail_dropped_wins(cs, c) == cs[c].present /\ ~cs[c].voicemail_dropped

\* storage.mark_voicemail_dropped: the store afterwards.
mark_voicemail_dropped(cs, c) ==
    IF mark_voicemail_dropped_wins(cs, c)
    THEN [cs EXCEPT ![c].voicemail_dropped = TRUE, ![c].status = "voicemail_playing"]
    ELSE cs

\* storage.append_transcript: one entry at the end of the record's transcript, when
\* the id has a record.
append_transcript(cs, c, text, track, is_final) ==
    IF cs[c].present
    THEN [cs EXCEPT ![c].transcript =
            Append(@, [text |-> text, track |-> track, is_final |-> is_final])]
    ELSE cs

\* storage.is_campaign_active
is_campaign_active == campaign.active /\ ~campaign.stop_requested

\* storage.is_transfer_paused
is_transfer_paused == active_transfer_cids # {}

\* storage.is_active_transfer
is_active_transfer(c) == c \in active_transfer_cids

\* A lookup that finds no number on the list.
is_dnc_never(n) == FALSE

\* storage.is_dnc: exact match of the number against the entries.
is_dnc(n) == n \in dnc

\* storage.persist_call_log: appends an entry when the id has a record.
persist_call_log(h, c) ==
    IF call_states[c].present
    THEN Append(h, [call_id |-> c, status |-> call_states[c].status,
                    transferred |-> call_states[c].transferred,
                    voicemail_dropped |-> call_states[c].voicemail_dropped])
    ELSE h

\* storage.increment_dialed
increment_dialed(camp) == [camp EXCEPT !.dialed_count = @ + 1]

\* ------------------------------------------------------------- threads
\* A webhook request thread that is not running.
Idle ==
    [pc |-> "idle", cid |-> 0, ev |-> "none", res |-> "none", tn |-> "", st |-> "none",
     num |-> ""]

\* The threading.Timer of call c before call.answered creates it.
TimerInit(c) ==
    [pc |-> "unarmed", cid |-> c, ev |-> "fallback", res |-> "timeout", tn |-> "",
     st |-> "none", num |-> ""]

\* The end of a thread's branch: a request returns; _amd_fallback goes on to its
\* closing _amd_timers.pop.
Finish(t) == IF IsTimer(t) THEN [thr[t] EXCEPT !.pc = "f_pop", !.tn = ""] ELSE Idle

At(t, pc) == thr[t].pc = pc
Goto(t, pc) == thr' = [thr EXCEPT ![t].pc = pc]

storeVars == << call_states, history >>
gateVars == << active_transfer_cids, transfer_pause_event >>
registryVars == << call_complete_events, complete_set >>
dialVars == << campaign, dnc, worker, place, admin, placed, dialed_by, dnc_listed >>
inputVars == << delivered, nAnswered, env, dialer, legs >>

\* The first branch of webhook() for an event type.
Dispatch(ev) ==
    CASE ev = "call.initiated" -> "init_upd"
      [] ev = "call.answered" -> "ans_get"
      [] ev = "call.machine.detection.ended" -> "amd_get"
      [] ev = "call.hangup" -> "hu_cancel"
      [] ev = "call.playback.ended" -> "pb_get"
      [] ev = "call.transcription" -> "tr_append"

\* webhook(): a request for event ev of call c arrives; the handler reads the
\* record (get_call_state) and the campaign.
webhook(h, c, ev, res) ==
    /\ At(h, "idle")
    /\ \A h2 \in HandlerIds : h2 < h => ~At(h2, "idle")
    /\ Cardinality({h2 \in HandlerIds : ~At(h2, "idle")}) < env.handlers
    /\ placed[c].st = "yes"
    /\ env.created_first => call_states[c].present
    /\ << ev, res >> \in env.events
    /\ Len(delivered[c]) < env.max_events
    /\ ev = "call.answered" =>
          Cardinality({k \in 1..Len(delivered[c]) : delivered[c][k][1] = ev}) < MaxAnswered
    /\ thr' = [thr EXCEPT ![h] =
                 [Idle EXCEPT !.pc = IF get_call_state(c).present
                                     THEN Dispatch(ev) ELSE "auto_create",
                              !.cid = c, !.ev = ev, !.res = res,
                              !.num = placed[c].to]]
    /\ delivered' = [delivered EXCEPT ![c] = Append(@, << ev, res >>)]
    /\ UNCHANGED << storeVars, gateVars, registryVars, dialVars, amd_timers, cmds,
                    nAnswered, env, dialer, legs >>

\* webhook(): no record was found: create_call_state with the event's number.
AutoCreate(h) ==
    /\ At(h, "auto_create")
    /\ call_states' = create_call_state(call_states, thr[h].cid, placed[thr[h].cid].to)
    /\ Goto(h, Dispatch(thr[h].ev))
    /\ UNCHANGED << history, gateVars, registryVars, dialVars, inputVars, amd_timers, cmds >>

\* call.initiated
Initiated(h) ==
    /\ At(h, "init_upd")
    /\ call_states' = update_call_state(call_states, thr[h].cid, [status |-> "ringing"])
    /\ thr' = [thr EXCEPT ![h] = Idle]
    /\ UNCHANGED << history, gateVars, registryVars, dialVars, inputVars, amd_timers, cmds >>

\* call.answered: the already-transferred check.
AnsweredGet(h) ==
    /\ At(h, "ans_get")
    /\ Goto(h, IF get_call_state(thr[h].cid).present /\ get_call_state(thr[h].cid).transferred
               THEN "ans_ignore" ELSE "ans_upd")
    /\ UNCHANGED << storeVars, gateVars, registryVars, dialVars, inputVars, amd_timers, cmds >>

\* call.answered for an already-transferred call: status is rewritten, nothing else.
AnsweredIgnore(h) ==
    /\ At(h, "ans_ignore")
    /\ call_states' = update_call_state(call_states, thr[h].cid, [status |-> "transferred"])
    /\ thr' = [thr EXCEPT ![h] = Idle]
    /\ UNCHANGED << history, gateVars, registryVars, dialVars, inputVars, amd_timers, cmds >>

\* call.answered: status "answered", amd_received False.
AnsweredUpdate(h) ==
    /\ At(h, "ans_upd")
    /\ call_states' = update_call_state(call_states, thr[h].cid,
                          [status |-> "answered", amd_received |-> FALSE])
    /\ Goto(h, "ans_arm")
    /\ UNCHANGED << history, gateVars, registryVars, dialVars, inputVars, amd_timers, cmds >>

\* call.answered: start_transcription(id) and start_recording(id) are sent to the
\* provider (`media` counts the pair); then a new threading.Timer(8.0,
\* _amd_fallback) is stored in _amd_timers under the call id (replacing the handle
\* that was there) and started.
AnsweredArm(h) ==
    /\ At(h, "ans_arm")
    /\ LET c == thr[h].cid
           t == TimerId(c, nAnswered[c] + 1)
       IN /\ thr' = [thr EXCEPT ![h] = Idle, ![t].pc = "armed"]
          /\ amd_timers' = [amd_timers EXCEPT ![c] = t]
          /\ nAnswered' = [nAnswered EXCEPT ![c] = @ + 1]
          /\ cmds' = [cmds EXCEPT ![c].media = @ + 1]
    /\ UNCHANGED << storeVars, gateVars, registryVars, dialVars, delivered, env, dialer,
                    legs >>

\* threading.Timer.cancel through the table: pop the handle and cancel it; a timer
\* that has already started _amd_fallback is not stopped by cancel.
CancelTimer(th, c) ==
    IF amd_timers[c] # 0 /\ th[amd_timers[c]].pc = "armed"
    THEN [th EXCEPT ![amd_timers[c]].pc = "cancelled"]
    ELSE th

\* The deadline of an armed timer passes: _amd_fallback starts and reads the record.
FallbackFire(t) ==
    /\ IsTimer(t)
    /\ At(t, "armed")
    /\ LET state == get_call_state(thr[t].cid)
       IN Goto(t, IF state.present /\ ~state.amd_received /\ state.status = "answered"
                  THEN "h_upd" ELSE "f_pop")
    /\ UNCHANGED << storeVars, gateVars, registryVars, dialVars, inputVars, amd_timers, cmds >>

\* _amd_fallback's last statement: _amd_timers.pop(ccid, None).
FallbackPop(t) ==
    /\ At(t, "f_pop")
    /\ amd_timers' = [amd_timers EXCEPT ![thr[t].cid] = 0]
    /\ Goto(t, "done")
    /\ UNCHANGED << storeVars, gateVars, registryVars, dialVars, inputVars, cmds >>

\* An AMD branch without the already-transferred check.
AmdGet_nocheck(h) ==
    /\ At(h, "amd_get")
    /\ Goto(h, "amd_cancel")
    /\ UNCHANGED << storeVars, gateVars, registryVars, dialVars, inputVars, amd_timers, cmds >>

\* call.machine.detection.ended: the already-transferred check.
AmdGet(h) ==
    /\ At(h, "amd_get")
    /\ IF get_call_state(thr[h].cid).present /\ get_call_state(thr[h].cid).transferred
       THEN thr' = [thr EXCEPT ![h] = Idle]
       ELSE Goto(h, "amd_cancel")
    /\ UNCHANGED << storeVars, gateVars, registryVars, dialVars, inputVars, amd_timers, cmds >>

\* call.machine.detection.ended: timer = _amd_timers.pop(id); timer.cancel().
AmdCancel(h) ==
    /\ At(h, "amd_cancel")
    /\ thr' = [CancelTimer(thr, thr[h].cid) EXCEPT ![h].pc = "amd_recv"]
    /\ amd_timers' = [amd_timers EXCEPT ![thr[h].cid] = 0]
    /\ UNCHANGED << storeVars, gateVars, registryVars, dialVars, inputVars, cmds >>

\* The branch of call.machine.detection.ended for a result.
AmdBranch(res) ==
    CASE res \in {"human", "not_sure"} -> "h_upd"
      [] res = "machine" -> "m_upd"
      [] OTHER -> "x_upd"

\* call.machine.detection.ended: update_call_state(amd_received=True), then the
\* record is read again and the handler returns when it is gone.
AmdReceived(h) ==
    /\ At(h, "amd_recv")
    /\ call_states' = update_call_state(call_states, thr[h].cid, [amd_received |-> TRUE])
    /\ IF get_call_state(thr[h].cid).present
       THEN Goto(h, AmdBranch(thr[h].res))
       ELSE thr' = [thr EXCEPT ![h] = Idle]
    /\ UNCHANGED << history, gateVars, registryVars, dialVars, inputVars, amd_timers, cmds >>

\* The human path, first update: of the human branch, of the not_sure branch and of
\* _amd_fallback (which also sets amd_received and tags amd_result "timeout").
HumanUpdate(t) ==
    /\ At(t, "h_upd")
    /\ call_states' =
          update_call_state(call_states, thr[t].cid,
              IF thr[t].ev = "fallback"
              THEN [machine_detected |-> "false", status |-> "human_detected",
                    amd_received |-> TRUE, amd_result |-> "timeout"]
              ELSE [machine_detected |-> "false", status |-> "human_detected",
                    amd_result |-> thr[t].res])
    /\ Goto(t, "h_cas")
    /\ UNCHANGED << history, gateVars, registryVars, dialVars, inputVars, amd_timers, cmds >>

\* Where the human path goes when `transfer_num and mark_transferred(id)` is false:
\* the human branch hangs up only without a transfer number, the not_sure branch and
\* _amd_fallback hang up in every such case.
HumanElse(t, tn) ==
    CASE thr[t].ev = "fallback" -> [thr[t] EXCEPT !.pc = "h_none_upd"]
      [] thr[t].res = "not_sure" -> [thr[t] EXCEPT !.pc = "h_hangup"]
      [] OTHER -> IF tn = "" THEN [thr[t] EXCEPT !.pc = "h_none_upd"] ELSE Finish(t)

\* The human path: transfer_num = get_campaign()["transfer_number"], then
\* `if transfer_num and mark_transferred(id)`.
HumanCas(t) ==
    /\ At(t, "h_cas")
    /\ LET c == thr[t].cid
           tn == campaign.transfer_number
       IN IF tn # "" /\ mark_transferred_wins(call_states, c)
          THEN /\ call_states' = mark_transferred(call_states, c)
               /\ thr' = [thr EXCEPT ![t].pc = "h_transfer", ![t].tn = tn]
          ELSE /\ call_states' = call_states
               /\ thr' = [thr EXCEPT ![t] = HumanElse(t, tn)]
    /\ UNCHANGED << history, gateVars, registryVars, dialVars, inputVars, amd_timers, cmds >>

\* A transfer_call issued from inside the locked region that also records the
\* outcome on the call's record.
transfer_call_locked(t, ok) ==
    /\ At(t, "h_transfer")
    /\ cmds' = [cmds EXCEPT ![thr[t].cid].transfer = @ + 1,
                            ![thr[t].cid].dest = _normalize_number(thr[t].tn),
                            ![thr[t].cid].rejected = @ \/ ~ok]
    /\ call_states' = [call_states EXCEPT ![thr[t].cid].amd_received = TRUE]
    /\ Goto(t, IF ok THEN "h_pin" ELSE "h_fail_upd")
    /\ UNCHANGED << campaign, dnc, history, gateVars, registryVars, dialVars, inputVars,
                    amd_timers >>

\* telnyx_client.transfer_call: the command reaches the provider with the normalized
\* destination; the provider accepts it or not.
transfer_call(t, ok) ==
    /\ At(t, "h_transfer")
    /\ cmds' = [cmds EXCEPT ![thr[t].cid].transfer = @ + 1,
                            ![thr[t].cid].dest = _normalize_number(thr[t].tn),
                            ![thr[t].cid].rejected = @ \/ ~ok]
    /\ Goto(t, IF ok THEN "h_pin" ELSE "h_fail_upd")
    /\ UNCHANGED << storeVars, gateVars, registryVars, dialVars, inputVars, amd_timers >>

\* storage.pause_for_transfer, first half: the id joins the set, under the lock.
pause_for_transfer_add(t) ==
    /\ At(t, "h_pin")
    /\ active_transfer_cids' = active_transfer_cids \cup {thr[t].cid}
    /\ Goto(t, "h_clear")
    /\ UNCHANGED << storeVars, transfer_pause_event, registryVars, dialVars, inputVars,
                    amd_timers, cmds >>

\* storage.pause_for_transfer, second half: the event is cleared, outside the lock.
pause_for_transfer_clear(t) ==
    /\ At(t, "h_clear")
    /\ transfer_pause_event' = FALSE
    /\ Goto(t, "h_ok_upd")
    /\ UNCHANGED << storeVars, active_transfer_cids, registryVars, dialVars, inputVars,
                    amd_timers, cmds >>

\* The human path after a successful transfer: status "transferred".
HumanTransferred(t) ==
    /\ At(t, "h_ok_upd")
    /\ call_states' = update_call_state(call_states, thr[t].cid, [status |-> "transferred"])
    /\ thr' = [thr EXCEPT ![t] = Finish(t)]
    /\ UNCHANGED << history, gateVars, registryVars, dialVars, inputVars, amd_timers, cmds >>

\* The human path after a failed transfer: status "transfer_failed".
HumanTransferFailed(t) ==
    /\ At(t, "h_fail_upd")
    /\ call_states' = update_call_state(call_states, thr[t].cid, [status |-> "transfer_failed"])
    /\ Goto(t, "h_hangup")
    /\ UNCHANGED << history, gateVars, registryVars, dialVars, inputVars, amd_timers, cmds >>

\* The human path without a transfer: status "human_no_transfer".
HumanNoTransfer(t) ==
    /\ At(t, "h_none_upd")
    /\ call_states' = update_call_state(call_states, thr[t].cid, [status |-> "human_no_transfer"])
    /\ Goto(t, "h_hangup")
    /\ UNCHANGED << history, gateVars, registryVars, dialVars, inputVars, amd_timers, cmds >>

\* telnyx_client.hangup_call, the last statement of the branch that issues it.
hangup_call(t) ==
    /\ At(t, "h_hangup")
    /\ cmds' = [cmds EXCEPT ![thr[t].cid].hangup = @ + 1]
    /\ thr' = [thr EXCEPT ![t] = Finish(t)]
    /\ UNCHANGED << storeVars, gateVars, registryVars, dialVars, inputVars, amd_timers >>

\* The fax branch and the branch of an unrecognized result: one update, then hang up.
AmdOther(h) ==
    /\ At(h, "x_upd")
    /\ call_states' =
          update_call_state(call_states, thr[h].cid,
              IF thr[h].res = "fax"
              THEN [machine_detected |-> "true", status |-> "machine_detected",
                    amd_result |-> "fax"]
              ELSE [status |-> "no_answer", amd_result |-> thr[h].res])
    /\ Goto(h, "h_hangup")
    /\ UNCHANGED << history, gateVars, registryVars, dialVars, inputVars, amd_timers, cmds >>

\* The machine branch, first update.
MachineUpdate(h) ==
    /\ At(h, "m_upd")
    /\ call_states' = update_call_state(call_states, thr[h].cid,
                          [machine_detected |-> "true", status |-> "machine_detected",
                           amd_result |-> "machine"])
    /\ Goto(h, "m_cas")
    /\ UNCHANGED << history, gateVars, registryVars, dialVars, inputVars, amd_timers, cmds >>

\* The machine branch: `if mark_voicemail_dropped(id)`.
MachineCas(h) ==
    /\ At(h, "m_cas")
    /\ call_states' = mark_voicemail_dropped(call_states, thr[h].cid)
    /\ IF mark_voicemail_dropped_wins(call_states, thr[h].cid)
       THEN Goto(h, "m_play")
       ELSE thr' = [thr EXCEPT ![h] = Idle]
    /\ UNCHANGED << history, gateVars, registryVars, dialVars, inputVars, amd_timers, cmds >>

\* telnyx_client.play_audio with `camp.get("audio_url")`: no personalized audio
\* exists for the number and the campaign's audio is configured.
play_audio(h) ==
    /\ At(h, "m_play")
    /\ cmds' = [cmds EXCEPT ![thr[h].cid].play = @ + 1,
                            ![thr[h].cid].audio = campaign.audio_url]
    /\ Goto(h, "m_transcript")
    /\ UNCHANGED << storeVars, gateVars, registryVars, dialVars, inputVars, amd_timers >>

\* The machine branch after play_audio has returned: the outbound transcript entry
\* "[Voicemail audio playing]".
MachineTranscript(h) ==
    /\ At(h, "m_transcript")
    /\ call_states' = append_transcript(call_states, thr[h].cid,
                                        "[Voicemail audio playing]", "outbound", TRUE)
    /\ thr' = [thr EXCEPT ![h] = Idle]
    /\ UNCHANGED << history, gateVars, registryVars, dialVars, inputVars, amd_timers, cmds >>

\* A playback.ended branch that does not look at voicemail_dropped.
PlaybackGet_nocheck(h) ==
    /\ At(h, "pb_get")
    /\ IF get_call_state(thr[h].cid).present
       THEN Goto(h, "pb_upd")
       ELSE thr' = [thr EXCEPT ![h] = Idle]
    /\ UNCHANGED << storeVars, gateVars, registryVars, dialVars, inputVars, amd_timers, cmds >>

\* call.playback.ended: `state = get_call_state(id)`,
\* `if state and state.get("voicemail_dropped")`.
PlaybackGet(h) ==
    /\ At(h, "pb_get")
    /\ IF get_call_state(thr[h].cid).present /\ get_call_state(thr[h].cid).voicemail_dropped
       THEN Goto(h, "pb_upd")
       ELSE thr' = [thr EXCEPT ![h] = Idle]
    /\ UNCHANGED << storeVars, gateVars, registryVars, dialVars, inputVars, amd_timers, cmds >>

\* call.playback.ended: status "voicemail_complete"; hangup_call follows.
PlaybackUpdate(h) ==
    /\ At(h, "pb_upd")
    /\ call_states' = update_call_state(call_states, thr[h].cid,
                                        [status |-> "voicemail_complete"])
    /\ Goto(h, "h_hangup")
    /\ UNCHANGED << history, gateVars, registryVars, dialVars, inputVars, amd_timers, cmds >>

\* A transcription branch that also marks the record.
Transcription_marks(h) ==
    /\ At(h, "tr_append")
    /\ call_states' =
          update_call_state(
              IF thr[h].res # ""
              THEN append_transcript(call_states, thr[h].cid, thr[h].res, "inbound", TRUE)
              ELSE call_states,
              thr[h].cid, [status |-> "transcribed"])
    /\ thr' = [thr EXCEPT ![h] = Idle]
    /\ UNCHANGED << history, gateVars, registryVars, dialVars, inputVars, amd_timers, cmds >>

\* call.transcription: `if transcript_text: append_transcript(id, text, track,
\* is_final)`; the event's text is in `res`, its track is the default "inbound" and
\* it is final.
Transcription(h) ==
    /\ At(h, "tr_append")
    /\ call_states' =
          IF thr[h].res # ""
          THEN append_transcript(call_states, thr[h].cid, thr[h].res, "inbound", TRUE)
          ELSE call_states
    /\ thr' = [thr EXCEPT ![h] = Idle]
    /\ UNCHANGED << history, gateVars, registryVars, dialVars, inputVars, amd_timers, cmds >>

\* threading.Event.set(), seen from the dial worker: a worker blocked in
\* wait_if_transfer_paused is notified and its wait returns, whatever happens to the
\* flag afterwards; a worker that is not blocked is not touched.
notify_waiter ==
    IF worker.pc = "seq_blocked" THEN [worker EXCEPT !.pc = "seq_recheck"]
    ELSE IF worker.pc = "sim_blocked" THEN [worker EXCEPT !.pc = "sim_recheck"]
    ELSE worker

\* storage.resume_after_transfer(id): the id leaves the set and the event is set
\* when the set is empty, both under the lock.
resume_after_transfer(c) ==
    /\ active_transfer_cids' = active_transfer_cids \ {c}
    /\ transfer_pause_event' =
          IF active_transfer_cids \ {c} = {} THEN TRUE ELSE transfer_pause_event
    /\ worker' = IF active_transfer_cids \ {c} = {} THEN notify_waiter ELSE worker

\* storage.resume_after_transfer(): the set is emptied and the event is set.
resume_after_transfer_all ==
    /\ active_transfer_cids' = {}
    /\ transfer_pause_event' = TRUE
    /\ worker' = notify_waiter

\* A signal that sets the id's event and leaves it registered.
signal_call_complete_keep(c) ==
    /\ call_complete_events' = call_complete_events
    /\ complete_set' = IF c \in call_complete_events THEN complete_set \cup {c}
                       ELSE complete_set

\* storage.signal_call_complete: pops the id's event and sets it, if registered.
signal_call_complete(c) ==
    /\ call_complete_events' = call_complete_events \ {c}
    /\ complete_set' = IF c \in call_complete_events THEN complete_set \cup {c}
                       ELSE complete_set

\* call.hangup: the pending fallback timer is popped and cancelled.
HangupCancel(h) ==
    /\ At(h, "hu_cancel")
    /\ thr' = [CancelTimer(thr, thr[h].cid) EXCEPT ![h].pc = "hu_active"]
    /\ amd_timers' = [amd_timers EXCEPT ![thr[h].cid] = 0]
    /\ UNCHANGED << storeVars, gateVars, registryVars, dialVars, inputVars, cmds >>

\* call.hangup: `if is_active_transfer(id)`.
HangupActive(h) ==
    /\ At(h, "hu_active")
    /\ Goto(h, IF is_active_transfer(thr[h].cid) THEN "hu_resume" ELSE "hu_get")
    /\ UNCHANGED << storeVars, gateVars, registryVars, dialVars, inputVars, amd_timers, cmds >>

\* call.hangup: resume_after_transfer(id).
HangupResume(h) ==
    /\ At(h, "hu_resume")
    /\ resume_after_transfer(thr[h].cid)
    /\ Goto(h, "hu_get")
    /\ UNCHANGED << storeVars, registryVars, inputVars, amd_timers, cmds, campaign, dnc,
                    place, admin, placed, dialed_by, dnc_listed >>

\* call.hangup: state = get_call_state(id); its status decides the update.
HangupGet(h) ==
    /\ At(h, "hu_get")
    /\ thr' = [thr EXCEPT ![h].pc = "hu_upd",
                          ![h].st = IF get_call_state(thr[h].cid).present
                                    THEN get_call_state(thr[h].cid).status ELSE "none"]
    /\ UNCHANGED << storeVars, gateVars, registryVars, dialVars, inputVars, amd_timers, cmds >>

\* The hangup_cause of the events of the model, whose payload names none.
HangupCause == "unknown"

\* call.hangup, `if state:`: the cause is recorded, and a status other than
\* transferred / voicemail_complete, as it was read, becomes "hangup".
HangupUpdate(h) ==
    /\ At(h, "hu_upd")
    /\ call_states' =
          IF thr[h].st = "none" THEN call_states
          ELSE IF thr[h].st \in {"transferred", "voicemail_complete"}
          THEN update_call_state(call_states, thr[h].cid, [hangup_cause |-> HangupCause])
          ELSE update_call_state(call_states, thr[h].cid,
                                 [status |-> "hangup", hangup_cause |-> HangupCause])
    /\ Goto(h, "hu_persist")
    /\ UNCHANGED << history, gateVars, registryVars, dialVars, inputVars, amd_timers, cmds >>

\* call.hangup: persist_call_log(id).
HangupPersist(h) ==
    /\ At(h, "hu_persist")
    /\ history' = persist_call_log(history, thr[h].cid)
    /\ Goto(h, "hu_signal")
    /\ UNCHANGED << call_states, gateVars, registryVars, dialVars, inputVars, amd_timers, cmds >>

\* call.hangup: signal_call_complete(id); the request returns.
HangupSignal(h) ==
    /\ At(h, "hu_signal")
    /\ signal_call_complete(thr[h].cid)
    /\ thr' = [thr EXCEPT ![h] = Idle]
    /\ UNCHANGED << storeVars, gateVars, dialVars, inputVars, amd_timers, cmds >>

\* ------------------------------------------------------- call_manager.py
NotPlaced == [st |-> "no", arg |-> "", to |-> "", paused |-> FALSE, win |-> 0,
              after_wait |-> "none", after_delay |-> "none"]

\* telnyx_client.make_call: the provider is asked to call the normalized number and
\* returns a call_control_id, or the request fails and None is returned.  `paused`
\* records whether a transfer was pinned in the gate when the request was made,
\* `win` the batch window of the dial loop in which it was made, `after_wait` and
\* `after_delay` how the sequential loop's last completion wait and delay ended.
make_call(n, ok) ==
    [st |-> IF ok THEN "yes" ELSE "failed", arg |-> n, to |-> _normalize_number(n),
     paused |-> is_transfer_paused, win |-> worker.win,
     after_wait |-> worker.waited, after_delay |-> worker.delay]

\* ------------------------------------------------------ transfer legs
\* webhook(): the digits of a number, as `lstrip("+")` and the two replace() leave
\* them.
leg_digits(n) == IF n = "+15559" THEN "15559" ELSE IF n = "+15551" THEN "15551" ELSE n

\* webhook(): `is_transfer_leg` for an event of an id without a record whose `to`
\* is the destination of the transfer of call p.
is_transfer_leg(p) ==
    /\ campaign.transfer_number # ""
    /\ leg_digits(campaign.transfer_number) # ""
    /\ leg_digits(cmds[p].dest) # ""
    /\ leg_digits(campaign.transfer_number) = leg_digits(cmds[p].dest)

LegEvents == {"call.answered", "call.hangup"}

\* webhook(): an event of the transfer leg of call p arrives; the leg exists once
\* the provider has accepted the transfer of p, it has no record, and after its
\* hangup it sends nothing.
webhook_leg(h, p, ev) ==
    /\ At(h, "idle")
    /\ \A h2 \in HandlerIds : h2 < h => ~At(h2, "idle")
    /\ Cardinality({h2 \in HandlerIds : ~At(h2, "idle")}) < env.handlers
    /\ cmds[p].transfer >= 1 /\ ~cmds[p].rejected
    /\ ev \notin legs.sent[p] /\ "call.hangup" \notin legs.sent[p]
    /\ is_transfer_leg(p)
    /\ thr' = [thr EXCEPT ![h] = [Idle EXCEPT !.pc = "leg_snap", !.cid = p, !.ev = ev,
                                               !.num = cmds[p].dest]]
    /\ legs' = [legs EXCEPT !.sent[p] = @ \cup {ev}]
    /\ UNCHANGED << storeVars, gateVars, registryVars, dialVars, amd_timers, cmds,
                    delivered, nAnswered, env, dialer >>

\* Transfer leg, `list(call_states_snapshot().items())`: the records copied under
\* the lock; the loop acts on those whose copy has `transferred`.
LegSnapshot(h) ==
    /\ At(h, "leg_snap")
    /\ legs' = [legs EXCEPT !.todo[h] =
                   {c \in CallIds : call_states[c].present /\ call_states[c].transferred}]
    /\ Goto(h, "leg_next")
    /\ UNCHANGED << storeVars, gateVars, registryVars, dialVars, amd_timers, cmds,
                    delivered, nAnswered, env, dialer >>

\* Transfer leg, the loop: the next record of the snapshot and
\* `is_active_transfer(cid_key)`; `return "", 200` after the last one.
LegNext(h) ==
    /\ At(h, "leg_next")
    /\ IF legs.todo[h] = {}
       THEN /\ thr' = [thr EXCEPT ![h] = Idle]
            /\ legs' = [legs EXCEPT !.key[h] = 0]
       ELSE \E c \in legs.todo[h] :
              /\ legs' = [legs EXCEPT !.todo[h] = @ \ {c},
                                      !.key[h] = IF is_active_transfer(c) THEN c ELSE 0]
              /\ Goto(h, IF is_active_transfer(c) THEN "leg_upd" ELSE "leg_next")
    /\ UNCHANGED << storeVars, gateVars, registryVars, dialVars, amd_timers, cmds,
                    delivered, nAnswered, env, dialer >>

\* Transfer leg: update_call_state(cid_key, status="transferred", ...), with the
\* description "Connected to a human, speaking now" or "Transfer call ended".
LegUpdate(h) ==
    /\ At(h, "leg_upd")
    /\ call_states' = update_call_state(call_states, legs.key[h], [status |-> "transferred"])
    /\ Goto(h, IF thr[h].ev = "call.hangup" THEN "leg_resume" ELSE "leg_next")
    /\ UNCHANGED << history, gateVars, registryVars, dialVars, inputVars, amd_timers, cmds >>

\* Transfer leg hangup: resume_after_transfer(cid_key).
LegResume(h) ==
    /\ At(h, "leg_resume")
    /\ resume_after_transfer(legs.key[h])
    /\ Goto(h, "leg_signal")
    /\ UNCHANGED << storeVars, registryVars, inputVars, amd_timers, cmds, campaign, dnc,
                    place, admin, placed, dialed_by, dnc_listed >>

\* Transfer leg hangup: signal_call_complete(cid_key).
LegSignal(h) ==
    /\ At(h, "leg_signal")
    /\ signal_call_complete(legs.key[h])
    /\ Goto(h, "leg_next")
    /\ UNCHANGED << storeVars, gateVars, dialVars, inputVars, amd_timers, cmds >>

\* webhook(): the test that makes an event of an id without a record a transfer
\* leg: the digits of its `to` and of the campaign's transfer number, neither empty,
\* one contained in the other (for the numbers of the model: equal).
matches_transfer_number(n) ==
    /\ campaign.transfer_number # ""
    /\ leg_digits(campaign.transfer_number) # ""
    /\ leg_digits(n) # ""
    /\ leg_digits(campaign.transfer_number) = leg_digits(n)

\* The numbers an event of a call without a record can carry beside the call's own:
\* none, or the transfer number.
OtherNumbers == {"", "+15559"}

\* webhook(): an event of call c arrives whose payload carries number n, while c
\* has no record.  With the transfer number it is a transfer leg: answered and
\* hangup run the leg's loop, any other event returns; with a number that does not
\* match, the record is created; without a number the id stays unknown and the
\* event goes to its branch.
webhook_unknown(h, c, ev, res, n) ==
    /\ At(h, "idle")
    /\ \A h2 \in HandlerIds : h2 < h => ~At(h2, "idle")
    /\ Cardinality({h2 \in HandlerIds : ~At(h2, "idle")}) < env.handlers
    /\ placed[c].st = "yes"
    /\ ~get_call_state(c).present
    /\ << ev, res >> \in env.events
    /\ Len(delivered[c]) < env.max_events
    /\ ev = "call.answered" =>
          Cardinality({k \in 1..Len(delivered[c]) : delivered[c][k][1] = ev}) < MaxAnswered
    /\ thr' = [thr EXCEPT ![h] =
                 IF n # "" /\ matches_transfer_number(n)
                 THEN IF ev \in LegEvents
                      THEN [Idle EXCEPT !.pc = "leg_snap", !.cid = c, !.ev = ev, !.num = n]
                      ELSE Idle
                 ELSE [Idle EXCEPT !.pc = IF n # "" THEN "auto_create" ELSE Dispatch(ev),
                                   !.cid = c, !.ev = ev, !.res = res, !.num = n]]
    /\ delivered' = [delivered EXCEPT ![c] = Append(@, << ev, res >>)]
    /\ UNCHANGED << storeVars, gateVars, registryVars, dialVars, amd_timers, cmds,
                    nAnswered, env, dialer, legs >>

\* _dial_worker's local `numbers`, read from the campaign when the worker starts.
Numbers == worker.numbers
Total == Len(worker.numbers)

callVars == << call_states, history, gateVars, registryVars, amd_timers, thr, cmds,
               inputVars >>

\* _dial_sequential: the head of the loop, `if not is_campaign_active(): break`.
SeqCheck ==
    /\ worker.pc = "seq_check"
    /\ worker' = [worker EXCEPT !.pc = IF worker.i <= Total /\ is_campaign_active
                                       THEN "seq_gate" ELSE "complete"]
    /\ UNCHANGED << callVars, campaign, dnc, place, admin, placed, dialed_by, dnc_listed >>

\* _dial_sequential: `if is_transfer_paused()`.
SeqGate ==
    /\ worker.pc = "seq_gate"
    /\ worker' = [worker EXCEPT !.pc = IF is_transfer_paused THEN "seq_wait" ELSE "seq_dnc"]
    /\ UNCHANGED << callVars, campaign, dnc, place, admin, placed, dialed_by, dnc_listed >>

\* storage.wait_if_transfer_paused, entering Event.wait: it returns at once when
\* the event is set, and blocks otherwise.
SeqWait ==
    /\ worker.pc = "seq_wait"
    /\ worker' = [worker EXCEPT !.pc = IF transfer_pause_event THEN "seq_recheck"
                                       ELSE "seq_blocked"]
    /\ UNCHANGED << callVars, campaign, dnc, place, admin, placed, dialed_by, dnc_listed >>

\* storage.wait_if_transfer_paused(timeout=3600): the wait times out.
SeqWaitTimeout ==
    /\ worker.pc = "seq_blocked"
    /\ worker' = [worker EXCEPT !.pc = "seq_recheck"]
    /\ UNCHANGED << callVars, campaign, dnc, place, admin, placed, dialed_by, dnc_listed >>

\* _dial_sequential: after the wait, `if not is_campaign_active(): break`.
SeqRecheck ==
    /\ worker.pc = "seq_recheck"
    /\ worker' = [worker EXCEPT !.pc = IF is_campaign_active THEN "seq_dnc" ELSE "complete"]
    /\ UNCHANGED << callVars, campaign, dnc, place, admin, placed, dialed_by, dnc_listed >>

\* _dial_sequential: `if is_dnc(number): increment_dialed(); continue`.
SeqDnc ==
    /\ worker.pc = "seq_dnc"
    /\ dnc_listed' = IF Numbers[worker.i] \in dnc THEN dnc_listed \cup {worker.i}
                     ELSE dnc_listed
    /\ IF is_dnc(Numbers[worker.i])
       THEN /\ campaign' = increment_dialed(campaign)
            /\ dialed_by' = [dialed_by EXCEPT ![worker.i] = @ + 1]
            /\ worker' = [worker EXCEPT !.pc = "seq_check", !.i = @ + 1]
       ELSE /\ worker' = [worker EXCEPT !.pc = "seq_call"]
            /\ UNCHANGED << campaign, dialed_by >>
    /\ UNCHANGED << callVars, dnc, place, admin, placed >>

\* A loop that gives up the campaign when make_call returns None.
SeqCall_abort(ok) ==
    /\ worker.pc = "seq_call"
    /\ placed' = [placed EXCEPT ![worker.i] = make_call(Numbers[worker.i], ok)]
    /\ worker' = IF ok THEN [worker EXCEPT !.pc = "seq_register", !.waited = "none",
                                           !.delay = "none"]
                 ELSE [worker EXCEPT !.pc = "complete"]
    /\ UNCHANGED << callVars, campaign, dnc, place, admin, dialed_by, dnc_listed >>

\* _dial_sequential: call_control_id = make_call(number).
SeqCall(ok) ==
    /\ worker.pc = "seq_call"
    /\ placed' = [placed EXCEPT ![worker.i] = make_call(Numbers[worker.i], ok)]
    /\ worker' = IF ok THEN [worker EXCEPT !.pc = "seq_register", !.waited = "none",
                                           !.delay = "none"]
                 ELSE [worker EXCEPT !.pc = "seq_inc"]
    /\ UNCHANGED << callVars, campaign, dnc, place, admin, dialed_by, dnc_listed >>

\* storage.register_call_complete_event: a fresh, unset Event under the id.
SeqRegister ==
    /\ worker.pc = "seq_register"
    /\ call_complete_events' = call_complete_events \cup {worker.i}
    /\ complete_set' = complete_set \ {worker.i}
    /\ worker' = [worker EXCEPT !.pc = "seq_create"]
    /\ UNCHANGED << call_states, history, gateVars, amd_timers, thr, cmds, inputVars,
                    campaign, dnc, place, admin, placed, dialed_by, dnc_listed >>

\* _dial_sequential without `complete_event.wait(timeout=120)`: the loop goes on
\* as soon as the record is created.
SeqCreate_nowait ==
    /\ worker.pc = "seq_create"
    /\ call_states' = create_call_state(call_states, worker.i, Numbers[worker.i])
    /\ worker' = [worker EXCEPT !.pc = "seq_inc"]
    /\ UNCHANGED << history, gateVars, registryVars, amd_timers, thr, cmds, inputVars,
                    campaign, dnc, place, admin, placed, dialed_by, dnc_listed >>

\* _dial_sequential: create_call_state(call_control_id, number).
SeqCreate ==
    /\ worker.pc = "seq_create"
    /\ call_states' = create_call_state(call_states, worker.i, Numbers[worker.i])
    /\ worker' = [worker EXCEPT !.pc = "seq_waitc"]
    /\ UNCHANGED << history, gateVars, registryVars, amd_timers, thr, cmds, inputVars,
                    campaign, dnc, place, admin, placed, dialed_by, dnc_listed >>

\* complete_event.wait: the event has been set by signal_call_complete.
SeqCompleted ==
    /\ worker.pc = "seq_waitc"
    /\ worker.i \in complete_set
    /\ worker' = [worker EXCEPT !.pc = "seq_inc", !.waited = "signal"]
    /\ UNCHANGED << callVars, campaign, dnc, place, admin, placed, dialed_by, dnc_listed >>

\* complete_event.wait() without a timeout: it returns on the signal only.
SeqCompleteTimeout_never ==
    /\ worker.pc = "seq_waitc"
    /\ FALSE
    /\ UNCHANGED vars

\* complete_event.wait(timeout=120): the wait times out.
SeqCompleteTimeout ==
    /\ worker.pc = "seq_waitc"
    /\ worker.i \notin complete_set
    /\ worker' = [worker EXCEPT !.pc = "seq_inc", !.waited = "timeout"]
    /\ UNCHANGED << callVars, campaign, dnc, place, admin, placed, dialed_by, dnc_listed >>

\* _dial_sequential: increment_dialed() after the call (placed or failed).
SeqIncrement ==
    /\ worker.pc = "seq_inc"
    /\ campaign' = increment_dialed(campaign)
    /\ dialed_by' = [dialed_by EXCEPT ![worker.i] = @ + 1]
    /\ worker' = IF worker.i < Total
                 THEN [worker EXCEPT !.pc = "seq_delay"]
                 ELSE [worker EXCEPT !.pc = "seq_check", !.i = @ + 1]
    /\ UNCHANGED << callVars, dnc, place, admin, placed, dnc_listed >>

\* _dial_sequential: the delay between calls has passed in full, or the campaign
\* was seen inactive by `if not is_campaign_active(): break` and the delay loop was
\* left early.
SeqDelay ==
    /\ worker.pc = "seq_delay"
    /\ worker' = [worker EXCEPT !.pc = "seq_check", !.i = @ + 1,
                                !.delay = IF is_campaign_active THEN "full" ELSE "cut"]
    /\ UNCHANGED << callVars, campaign, dnc, place, admin, placed, dialed_by, dnc_listed >>

\* _dial_worker: mark_campaign_complete() when the dial function returns.
Complete ==
    /\ worker.pc = "complete"
    /\ campaign' = [campaign EXCEPT !.active = FALSE]
    /\ worker' = [worker EXCEPT !.pc = "done"]
    /\ UNCHANGED << callVars, dnc, place, admin, placed, dialed_by, dnc_listed >>

BatchSize == 2

\* The last position of the batch that starts at position i.
BatchEnd(i) == IF i + worker.batch_size - 1 < Total THEN i + worker.batch_size - 1
               ELSE Total

\* _dial_simultaneous: the head of the loop, `while i < total` and the active check.
SimCheck ==
    /\ worker.pc = "sim_check"
    /\ worker' = [worker EXCEPT !.pc = IF worker.i <= Total /\ is_campaign_active
                                       THEN "sim_gate" ELSE "complete",
                                !.win = @ + 1]
    /\ UNCHANGED << callVars, campaign, dnc, place, admin, placed, dialed_by, dnc_listed >>

\* _dial_simultaneous: `if is_transfer_paused()`.
SimGate ==
    /\ worker.pc = "sim_gate"
    /\ worker' = [worker EXCEPT !.pc = IF is_transfer_paused THEN "sim_wait" ELSE "sim_spawn",
                                !.j = worker.i]
    /\ UNCHANGED << callVars, campaign, dnc, place, admin, placed, dialed_by, dnc_listed >>

\* storage.wait_if_transfer_paused, entering Event.wait: it returns at once when
\* the event is set, and blocks otherwise.
SimWait ==
    /\ worker.pc = "sim_wait"
    /\ worker' = [worker EXCEPT !.pc = IF transfer_pause_event THEN "sim_recheck"
                                       ELSE "sim_blocked"]
    /\ UNCHANGED << callVars, campaign, dnc, place, admin, placed, dialed_by, dnc_listed >>

\* storage.wait_if_transfer_paused(timeout=3600): the wait times out.
SimWaitTimeout ==
    /\ worker.pc = "sim_blocked"
    /\ worker' = [worker EXCEPT !.pc = "sim_recheck"]
    /\ UNCHANGED << callVars, campaign, dnc, place, admin, placed, dialed_by, dnc_listed >>

\* _dial_simultaneous: after the wait, `if not is_campaign_active(): break`.
SimRecheck ==
    /\ worker.pc = "sim_recheck"
    /\ worker' = [worker EXCEPT !.pc = IF is_campaign_active THEN "sim_spawn" ELSE "complete"]
    /\ UNCHANGED << callVars, campaign, dnc, place, admin, placed, dialed_by, dnc_listed >>

\* _dial_simultaneous: the next _place_single_call thread of the batch is started.
SimSpawn ==
    /\ worker.pc = "sim_spawn"
    /\ place' = [place EXCEPT ![worker.j] = "p_dnc"]
    /\ worker' = IF worker.j < BatchEnd(worker.i)
                 THEN [worker EXCEPT !.j = @ + 1]
                 ELSE [worker EXCEPT !.pc = "sim_join"]
    /\ UNCHANGED << callVars, campaign, dnc, admin, placed, dialed_by, dnc_listed >>

\* _dial_simultaneous: `t.join(timeout=15)` for each thread: every thread has ended
\* or its join has timed out.
SimJoin ==
    /\ worker.pc = "sim_join"
    /\ worker' = [worker EXCEPT !.pc = "sim_inc", !.j = worker.i]
    /\ UNCHANGED << callVars, campaign, dnc, place, admin, placed, dialed_by, dnc_listed >>

\* _dial_simultaneous: increment_dialed() once for each number of the batch, then
\* `i = batch_end`.
SimIncrement ==
    /\ worker.pc = "sim_inc"
    /\ campaign' = increment_dialed(campaign)
    /\ dialed_by' = [dialed_by EXCEPT ![worker.j] = @ + 1]
    /\ worker' = IF worker.j < BatchEnd(worker.i)
                 THEN [worker EXCEPT !.j = @ + 1]
                 ELSE [worker EXCEPT !.pc = "sim_pause", !.i = BatchEnd(worker.i) + 1]
    /\ UNCHANGED << callVars, dnc, place, admin, placed, dnc_listed >>

\* _dial_simultaneous: `time.sleep(2)`, the pause before the next batch.
SimPause ==
    /\ worker.pc = "sim_pause"
    /\ worker' = [worker EXCEPT !.pc = "sim_check"]
    /\ UNCHANGED << callVars, campaign, dnc, place, admin, placed, dialed_by, dnc_listed >>

\* _place_single_call: `if is_dnc(number): return`.
PlaceDnc(j) ==
    /\ place[j] = "p_dnc"
    /\ dnc_listed' = IF Numbers[j] \in dnc THEN dnc_listed \cup {j} ELSE dnc_listed
    /\ place' = [place EXCEPT ![j] = IF is_dnc(Numbers[j]) THEN "done" ELSE "p_call"]
    /\ UNCHANGED << callVars, campaign, dnc, worker, admin, placed, dialed_by >>

\* _place_single_call: call_control_id = make_call(number).
PlaceCall(j, ok) ==
    /\ place[j] = "p_call"
    /\ placed' = [placed EXCEPT ![j] = make_call(Numbers[j], ok)]
    /\ place' = [place EXCEPT ![j] = IF ok THEN "p_create" ELSE "done"]
    /\ UNCHANGED << callVars, campaign, dnc, worker, admin, dialed_by, dnc_listed >>

\* _place_single_call: create_call_state(call_control_id, number).
PlaceCreate(j) ==
    /\ place[j] = "p_create"
    /\ call_states' = create_call_state(call_states, j, Numbers[j])
    /\ place' = [place EXCEPT ![j] = "done"]
    /\ UNCHANGED << history, gateVars, registryVars, amd_timers, thr, cmds, inputVars,
                    campaign, dnc, worker, admin, placed, dialed_by, dnc_listed >>

\* ------------------------------------------------ app.py: admin requests
\* /stop with only `stop_requested = True`: the campaign is left active.
stop_campaign_flag_only ==
    /\ env.stop
    /\ admin.pc = "idle"
    /\ campaign' = [campaign EXCEPT !.stop_requested = TRUE]
    /\ admin' = [admin EXCEPT !.pc = "resume",
                              !.found_blocked = worker.pc \in {"seq_blocked", "sim_blocked"}]
    /\ UNCHANGED << callVars, dnc, worker, place, placed, dialed_by, dnc_listed >>

\* /stop, first call: storage.stop_campaign().
stop_campaign ==
    /\ env.stop
    /\ admin.pc = "idle"
    /\ campaign' = [campaign EXCEPT !.stop_requested = TRUE, !.active = FALSE]
    /\ admin' = [admin EXCEPT !.pc = "resume",
                              !.found_blocked = worker.pc \in {"seq_blocked", "sim_blocked"}]
    /\ UNCHANGED << callVars, dnc, worker, place, placed, dialed_by, dnc_listed >>

\* /stop without its second call: the gate is left as it is.
StopResume_skip ==
    /\ admin.pc = "resume"
    /\ admin' = [admin EXCEPT !.pc = "done"]
    /\ UNCHANGED << callVars, campaign, dnc, worker, place, placed, dialed_by, dnc_listed >>

\* /stop, second call: storage.resume_after_transfer() with no id.
StopResume ==
    /\ admin.pc = "resume"
    /\ resume_after_transfer_all
    /\ admin' = [admin EXCEPT !.pc = "done"]
    /\ UNCHANGED << call_states, history, registryVars, amd_timers, thr, cmds, inputVars,
                    campaign, dnc, place, placed, dialed_by, dnc_listed >>

\* POST /api/dnc: storage.add_to_dnc(number).
add_to_dnc(n) ==
    /\ admin.dnc_ops < env.dnc_ops
    /\ n \notin dnc
    /\ dnc' = dnc \cup {n}
    /\ admin' = [admin EXCEPT !.dnc_ops = @ + 1]
    /\ UNCHANGED << callVars, campaign, worker, place, placed, dialed_by, dnc_listed >>

\* DELETE /api/dnc: storage.remove_from_dnc(number).
remove_from_dnc(n) ==
    /\ admin.dnc_ops < env.dnc_ops
    /\ n \in dnc
    /\ dnc' = dnc \ {n}
    /\ admin' = [admin EXCEPT !.dnc_ops = @ + 1]
    /\ UNCHANGED << callVars, campaign, worker, place, placed, dialed_by, dnc_listed >>

\* ------------------------------------ starting and resetting a campaign
DefaultBatchSize == 5

\* storage.set_campaign: the record it leaves in storage.campaign.
set_campaign(audio_url, transfer_number, numbers, dial_mode, batch_size) ==
    [active |-> TRUE, audio_url |-> audio_url, transfer_number |-> transfer_number,
     numbers |-> numbers, dialed_count |-> 0, stop_requested |-> FALSE,
     dial_mode |-> dial_mode,
     batch_size |-> IF batch_size < 1 THEN 1 ELSE IF batch_size > 50 THEN 50 ELSE batch_size]

\* The dial worker thread has been started and has not returned.
FirstAlive == worker.pc \notin {"none", "done"}

\* A worker thread started beside a live one has not returned.
SecondAlive == dialer.second = "running"

\* `_worker_thread and _worker_thread.is_alive()`
worker_thread_is_alive ==
    \/ dialer.thread = "first" /\ FirstAlive
    \/ dialer.thread = "second" /\ SecondAlive

\* What no step of a start or reset request touches.
startFrame == << dnc, registryVars, amd_timers, history, thr, place, admin, placed, cmds,
                dialed_by, dnc_listed, delivered, nAnswered, env, legs >>

\* _scheduler_worker: a schedule is due; `if camp.get("active"): continue`.
SchedulerDue ==
    /\ dialer.start["scheduler"] = "idle"
    /\ dialer.starts < env.starts
    /\ dialer' = [dialer EXCEPT !.start["scheduler"] = IF campaign.active THEN "idle" ELSE "set",
                                !.starts = @ + 1]
    /\ UNCHANGED << startFrame, gateVars, call_states, campaign, worker >>

\* POST /start: the request has parsed its form.
DashboardStart ==
    /\ dialer.start["dashboard"] = "idle"
    /\ dialer.starts < env.starts
    /\ dialer' = [dialer EXCEPT !.start["dashboard"] = "set", !.starts = @ + 1]
    /\ UNCHANGED << startFrame, gateVars, call_states, campaign, worker >>

\* The number list a start request installs: the dashboard's comes from its form
\* (MaxNumbers numbers), the scheduler's from the schedule that fell due (one
\* number).
StartNumbers(x) ==
    IF x = "dashboard" THEN [i \in 1..MaxNumbers |-> "+15551"] ELSE << "15551" >>

\* /start and _scheduler_worker: set_campaign(...), which also clears call_states.
StartSet(x) ==
    /\ dialer.start[x] = "set"
    /\ campaign' = set_campaign(CampaignAudio, TransferNumber, StartNumbers(x),
                                "sequential", 1)
    /\ call_states' = [c \in CallIds |-> NoState]
    /\ dialer' = [dialer EXCEPT !.start[x] = "check"]
    /\ UNCHANGED << startFrame, gateVars, worker >>

\* start_dialer: `if _worker_thread and _worker_thread.is_alive(): return`.
StartCheck(x) ==
    /\ dialer.start[x] = "check"
    /\ dialer' = [dialer EXCEPT !.start[x] = IF worker_thread_is_alive THEN "idle"
                                             ELSE "spawn"]
    /\ UNCHANGED << startFrame, gateVars, call_states, campaign, worker >>

\* _dial_worker as a thread that has just been started.
NewWorker ==
    [pc |-> "begin", i |-> 1, j |-> 1, win |-> 0, waited |-> "none", delay |-> "none",
     numbers |-> << >>, batch_size |-> 1]

\* start_dialer: `_worker_thread = threading.Thread(target=_dial_worker)` and
\* `_worker_thread.start()`.  The new thread is the worker of this model, or, when
\* that one is still running, a second worker beside it.
StartSpawn(x) ==
    /\ dialer.start[x] = "spawn"
    /\ ~(FirstAlive /\ SecondAlive)
    /\ IF FirstAlive
       THEN /\ dialer' = [dialer EXCEPT !.start[x] = "idle", !.thread = "second",
                                        !.second = "running"]
            /\ UNCHANGED worker
       ELSE /\ dialer' = [dialer EXCEPT !.start[x] = "idle", !.thread = "first"]
            /\ worker' = NewWorker
    /\ UNCHANGED << startFrame, gateVars, call_states, campaign >>

\* _dial_worker: campaign = get_campaign(); numbers, dial_mode and batch_size are
\* read once, and the dial function of the mode is entered.
DialWorkerBegin ==
    /\ worker.pc = "begin"
    /\ worker' = [worker EXCEPT
                    !.pc = IF campaign.dial_mode = "simultaneous" THEN "sim_check"
                           ELSE "seq_check",
                    !.numbers = campaign.numbers, !.batch_size = campaign.batch_size]
    /\ UNCHANGED << startFrame, gateVars, call_states, campaign, dialer >>

\* The end of a second worker: mark_campaign_complete() and the thread returns.
\* (Its calls, the same loop over the same list, are not followed.)
SecondWorkerComplete ==
    /\ SecondAlive
    /\ campaign' = [campaign EXCEPT !.active = FALSE]
    /\ dialer' = [dialer EXCEPT !.second = "done"]
    /\ UNCHANGED << startFrame, gateVars, call_states, worker >>

\* storage.reset_campaign, first statement: resume_after_transfer().
ResetResume ==
    /\ env.reset
    /\ dialer.reset = "idle"
    /\ resume_after_transfer_all
    /\ dialer' = [dialer EXCEPT !.reset = "locked"]
    /\ UNCHANGED << startFrame, call_states, campaign >>

\* storage.reset_campaign, under the lock: the campaign is cleared and call_states
\* emptied.
reset_campaign ==
    /\ dialer.reset = "locked"
    /\ campaign' = [active |-> FALSE, audio_url |-> "none", transfer_number |-> "none",
                    numbers |-> << >>, dialed_count |-> 0, stop_requested |-> FALSE,
                    dial_mode |-> "sequential", batch_size |-> DefaultBatchSize]
    /\ call_states' = [c \in CallIds |-> NoState]
    /\ dialer' = [dialer EXCEPT !.reset = "done"]
    /\ UNCHANGED << startFrame, gateVars, worker >>

\* ------------------------------------------------------ specifications
AllEvents ==
    { << ev, "none" >> : ev \in {"call.initiated", "call.answered", "call.hangup"} }
        \cup { << "call.machine.detection.ended", r >> : r \in AmdResults }

\* The state of the process at start, but for the campaign and the dial worker.
InitStore(e, listed) ==
    /\ call_states = [c \in CallIds |-> NoState]
    /\ dnc = listed
    /\ active_transfer_cids = {}
    /\ transfer_pause_event = TRUE
    /\ call_complete_events = {}
    /\ complete_set = {}
    /\ amd_timers = [c \in CallIds |-> 0]
    /\ history = << >>
    /\ thr = [t \in ThreadIds |->
                IF t \in HandlerIds THEN Idle
                ELSE TimerInit(CHOOSE c \in CallIds : \E k \in 1..MaxAnswered : t = TimerId(c, k))]
    /\ place = [c \in CallIds |-> "idle"]
    /\ admin = [pc |-> "idle", dnc_ops |-> 0, found_blocked |-> FALSE]
    /\ placed = [c \in CallIds |-> NotPlaced]
    /\ cmds = [c \in CallIds |-> [transfer |-> 0, dest |-> "", rejected |-> FALSE,
                                  play |-> 0, audio |-> "", hangup |-> 0, media |-> 0]]
    /\ dialed_by = [c \in CallIds |-> 0]
    /\ dnc_listed = {}
    /\ delivered = [c \in CallIds |-> << >>]
    /\ nAnswered = [c \in CallIds |-> 0]
    /\ env = e
    /\ legs = [sent |-> [c \in CallIds |-> {}], todo |-> [h \in HandlerIds |-> {}],
               key |-> [h \in HandlerIds |-> 0]]

\* The state after storage.set_campaign(...) and call_manager.start_dialer(), the
\* worker having read the campaign.
InitWith(e, nums, mode, batch, listed) ==
    /\ InitStore(e, listed)
    /\ campaign = set_campaign(CampaignAudio, TransferNumber, nums, mode, batch)
    /\ worker = [NewWorker EXCEPT
                    !.pc = IF mode = "simultaneous" THEN "sim_check" ELSE "seq_check",
                    !.numbers = nums, !.batch_size = batch]
    /\ dialer = [thread |-> "first", second |-> "none",
                 start |-> [x \in StartContexts |-> "idle"], starts |-> 0,
                 reset |-> "idle"]

\* Every step of a webhook request or of an AMD fallback timer, but for the creation
\* of a missing record.
RequestStep(t) ==
    \/ Initiated(t)
    \/ AnsweredGet(t) \/ AnsweredIgnore(t) \/ AnsweredUpdate(t) \/ AnsweredArm(t)
    \/ FallbackFire(t) \/ FallbackPop(t)
    \/ AmdGet(t) \/ AmdCancel(t) \/ AmdReceived(t)
    \/ HumanUpdate(t) \/ HumanCas(t) \/ (\E ok \in BOOLEAN : transfer_call(t, ok))
    \/ pause_for_transfer_add(t) \/ pause_for_transfer_clear(t)
    \/ HumanTransferred(t) \/ HumanTransferFailed(t) \/ HumanNoTransfer(t)
    \/ hangup_call(t) \/ AmdOther(t)
    \/ MachineUpdate(t) \/ MachineCas(t) \/ play_audio(t) \/ MachineTranscript(t)
    \/ HangupCancel(t) \/ HangupActive(t) \/ HangupResume(t) \/ HangupGet(t)
    \/ HangupUpdate(t) \/ HangupPersist(t) \/ HangupSignal(t)

\* The steps of the sequential dial worker that a campaign of one number can take.
SingleCallStep ==
    \/ SeqCheck \/ SeqGate \/ SeqDnc
    \/ (\E ok \in BOOLEAN : SeqCall(ok)) \/ SeqRegister \/ SeqCreate
    \/ SeqCompleted \/ SeqCompleteTimeout \/ SeqIncrement \/ Complete

\* Spec: one call of a sequential campaign; any MaxEvents events in any order, from
\* the moment make_call has returned, handled by up to MaxHandlers concurrent requests.
Init ==
    InitWith([events |-> AllEvents, max_events |-> MaxEvents, handlers |-> MaxHandlers,
              created_first |-> FALSE, stop |-> FALSE, dnc_ops |-> 0,
              starts |-> 0, reset |-> FALSE],
             << "+15551" >>, "sequential", 1, {})

Next ==
    \/ \E h \in HandlerIds, c \in CallIds, e \in AllEvents : webhook(h, c, e[1], e[2])
    \/ \E t \in ThreadIds : AutoCreate(t) \/ RequestStep(t)
    \/ SingleCallStep

Spec == Init /\ [][Next]_vars

\* SpecSerial: one call of a sequential campaign whose record the dial worker has
\* created before the first event arrives; any MaxSerialEvents events in any order,
\* each request handled to its end before the next arrives.  The AMD fallback timers
\* run beside the requests.
MaxSerialEvents == 3

InitSerial ==
    InitWith([events |-> AllEvents, max_events |-> MaxSerialEvents, handlers |-> 1,
              created_first |-> TRUE, stop |-> FALSE, dnc_ops |-> 0,
              starts |-> 0, reset |-> FALSE],
             << "+15551" >>, "sequential", 1, {})

NextSerial ==
    \/ \E h \in HandlerIds, c \in CallIds, e \in AllEvents : webhook(h, c, e[1], e[2])
    \/ \E t \in ThreadIds : RequestStep(t)
    \/ SingleCallStep

SpecSerial == InitSerial /\ [][NextSerial]_vars

\* SpecDial: a campaign of MaxNumbers numbers under either pacing, with the stop
\* request; of each placed call, whose record has been created, the events AMD human
\* and hangup arrive, one request at a time.
DialEvents == { << "call.machine.detection.ended", "human" >>, << "call.hangup", "" >> }

InitDial ==
    \E mode \in {"sequential", "simultaneous"}, batch \in 1..BatchSize :
        InitWith([events |-> DialEvents, max_events |-> MaxEvents, handlers |-> 1,
                  created_first |-> TRUE, stop |-> TRUE, dnc_ops |-> 0,
              starts |-> 0, reset |-> FALSE],
                 [i \in 1..MaxNumbers |-> "+15551"], mode, batch, {})

\* The steps of the requests that handle the events of DialEvents.
DialRequestStep(t) ==
    \/ AmdGet(t) \/ AmdCancel(t) \/ AmdReceived(t)
    \/ HumanUpdate(t) \/ HumanCas(t) \/ (\E ok \in BOOLEAN : transfer_call(t, ok))
    \/ pause_for_transfer_add(t) \/ pause_for_transfer_clear(t)
    \/ HumanTransferred(t) \/ HumanTransferFailed(t) \/ hangup_call(t)
    \/ HangupCancel(t) \/ HangupActive(t) \/ HangupResume(t) \/ HangupGet(t)
    \/ HangupUpdate(t) \/ HangupPersist(t) \/ HangupSignal(t)

\* The steps of the simultaneous dial worker and of its _place_single_call threads
\* that do not depend on the Transfer Gate being closed.
BatchStep ==
    \/ SimCheck \/ SimGate \/ SimSpawn \/ SimJoin \/ SimIncrement \/ SimPause
    \/ \E j \in CallIds : PlaceDnc(j) \/ (\E ok \in BOOLEAN : PlaceCall(j, ok)) \/ PlaceCreate(j)

NextDial ==
    \/ \E h \in HandlerIds, c \in CallIds, e \in DialEvents : webhook(h, c, e[1], e[2])
    \/ \E t \in HandlerIds : DialRequestStep(t)
    \/ SingleCallStep
    \/ SeqWait \/ SeqWaitTimeout \/ SeqRecheck \/ SeqDelay
    \/ BatchStep
    \/ SimWait \/ SimWaitTimeout \/ SimRecheck
    \/ stop_campaign \/ StopResume

SpecDial == InitDial /\ [][NextDial]_vars

\* SpecDialFair: SpecDial with the scheduling the threads get: the /stop request
\* goes on to its second call, and the worker thread, once its wait on the gate has
\* returned, goes on to its re-check and to mark_campaign_complete().
SpecDialFair ==
    /\ SpecDial
    /\ WF_vars(StopResume)
    /\ WF_vars(SeqRecheck \/ SimRecheck \/ Complete)

\* Every step of the worker thread: _dial_worker with the loop of either pacing.
DialLoopStep ==
    \/ SeqCheck \/ SeqGate \/ SeqWait \/ SeqWaitTimeout \/ SeqRecheck \/ SeqDnc
    \/ (\E ok \in BOOLEAN : SeqCall(ok)) \/ SeqRegister \/ SeqCreate
    \/ SeqCompleted \/ SeqCompleteTimeout \/ SeqIncrement \/ SeqDelay \/ Complete
    \/ SimCheck \/ SimGate \/ SimWait \/ SimWaitTimeout \/ SimRecheck
    \/ SimSpawn \/ SimJoin \/ SimIncrement \/ SimPause

\* SpecDialLive: SpecDial with the scheduling the worker thread gets: it is never
\* starved, make_call returns (its POST has a timeout), and time passes, so that a
\* wait with a timeout returns.  No event of a call and no step of a request, of a
\* placing thread or of /stop is required to happen.
SpecDialLive == SpecDial /\ WF_vars(DialLoopStep)

\* SpecGate: the sequential campaign of SpecDial without the stop request, the
\* events of its calls handled by up to MaxHandlers concurrent requests: pin, unpin
\* and the dial loop's check-then-wait in every interleaving.
InitGate ==
    InitWith([events |-> DialEvents, max_events |-> MaxEvents,
              handlers |-> MaxHandlers, created_first |-> TRUE, stop |-> FALSE,
              dnc_ops |-> 0,
              starts |-> 0, reset |-> FALSE],
             [i \in 1..MaxNumbers |-> "+15551"], "sequential", 1, {})

NextGate ==
    \/ \E h \in HandlerIds, c \in CallIds, e \in DialEvents : webhook(h, c, e[1], e[2])
    \/ \E t \in HandlerIds : DialRequestStep(t)
    \/ SingleCallStep
    \/ SeqWait \/ SeqWaitTimeout \/ SeqRecheck \/ SeqDelay

SpecGate == InitGate /\ [][NextGate]_vars

\* SpecCampaign: from the state of the process at start (no campaign, no worker),
\* up to MaxStarts start requests from the dashboard and the scheduler thread, one
\* /stop, one reset_campaign(), and the sequential worker they start; no event of a
\* placed call arrives.
MaxStarts == 2

InitCampaign ==
    /\ InitStore([events |-> {}, max_events |-> 0, handlers |-> 1, created_first |-> TRUE,
                  stop |-> TRUE, dnc_ops |-> 0, starts |-> MaxStarts, reset |-> TRUE], {})
    /\ campaign = [active |-> FALSE, audio_url |-> "none", transfer_number |-> "none",
                   numbers |-> << >>, dialed_count |-> 0, stop_requested |-> FALSE,
                   dial_mode |-> "sequential", batch_size |-> DefaultBatchSize]
    /\ worker = [NewWorker EXCEPT !.pc = "none"]
    /\ dialer = [thread |-> "none", second |-> "none",
                 start |-> [x \in StartContexts |-> "idle"], starts |-> 0,
                 reset |-> "idle"]

NextCampaign ==
    \/ SchedulerDue \/ DashboardStart
    \/ \E x \in StartContexts : StartSet(x) \/ StartCheck(x) \/ StartSpawn(x)
    \/ DialWorkerBegin \/ SecondWorkerComplete
    \/ SeqCheck \/ SeqGate \/ SeqDnc
    \/ (\E ok \in BOOLEAN : SeqCall(ok)) \/ SeqRegister \/ SeqCreate
    \/ SeqCompleteTimeout \/ SeqIncrement \/ SeqDelay \/ Complete
    \/ stop_campaign \/ StopResume
    \/ ResetResume \/ reset_campaign

SpecCampaign == InitCampaign /\ [][NextCampaign]_vars

\* SpecDnc: a campaign of MaxNumbers numbers under either pacing, with the stop
\* request and MaxDncOps additions to or removals from the DNC list while the worker
\* runs; no event of a placed call arrives.
MaxDncOps == 1

InitDnc ==
    \E nums \in [1..MaxNumbers -> Phones], mode \in {"sequential", "simultaneous"},
       batch \in 1..BatchSize, listed \in SUBSET {"+15551"} :
        InitWith([events |-> {}, max_events |-> 0, handlers |-> 1,
                  created_first |-> TRUE, stop |-> TRUE, dnc_ops |-> MaxDncOps,
              starts |-> 0, reset |-> FALSE],
                 nums, mode, batch, listed)

NextDnc ==
    \/ SeqCheck \/ SeqGate \/ SeqDnc
    \/ (\E ok \in BOOLEAN : SeqCall(ok)) \/ SeqRegister \/ SeqCreate
    \/ SeqCompleteTimeout \/ SeqIncrement \/ SeqDelay \/ Complete
    \/ BatchStep
    \/ stop_campaign \/ StopResume
    \/ \E n \in Phones : add_to_dnc(n) \/ remove_from_dnc(n)

SpecDnc == InitDnc /\ [][NextDnc]_vars

\* SpecLeg: a simultaneous campaign of MaxNumbers numbers in one batch; of each
\* placed call the event AMD human arrives, and of each accepted transfer the
\* events of its leg, one request at a time; no stop request.
LegCallEvents == { << "call.machine.detection.ended", "human" >> }

InitLeg ==
    InitWith([events |-> LegCallEvents, max_events |-> 1, handlers |-> 1,
              created_first |-> TRUE, stop |-> FALSE, dnc_ops |-> 0,
              starts |-> 0, reset |-> FALSE],
             [i \in 1..MaxNumbers |-> "+15551"], "simultaneous", MaxNumbers, {})

\* The steps of the requests that handle AMD human and the events of a transfer leg.
LegRequestStep(t) ==
    \/ AmdGet(t) \/ AmdCancel(t) \/ AmdReceived(t)
    \/ HumanUpdate(t) \/ HumanCas(t) \/ (\E ok \in BOOLEAN : transfer_call(t, ok))
    \/ pause_for_transfer_add(t) \/ pause_for_transfer_clear(t)
    \/ HumanTransferred(t) \/ HumanTransferFailed(t) \/ hangup_call(t)
    \/ LegSnapshot(t) \/ LegNext(t) \/ LegUpdate(t) \/ LegResume(t) \/ LegSignal(t)

NextLeg ==
    \/ \E h \in HandlerIds, c \in CallIds, e \in LegCallEvents : webhook(h, c, e[1], e[2])
    \/ \E h \in HandlerIds, p \in CallIds, ev \in LegEvents : webhook_leg(h, p, ev)
    \/ \E t \in HandlerIds : LegRequestStep(t)
    \/ BatchStep
    \/ Complete

SpecLeg == InitLeg /\ [][NextLeg]_vars

\* SpecNoTransfer: one call of a sequential campaign that has no transfer number;
\* its record is created before the first event; call.answered, AMD human, AMD
\* not_sure and call.hangup arrive in any order, MaxEvents of them, each request
\* handled to its end before the next arrives, the fallback timers beside them.
NoTransferEvents ==
    { << "call.answered", "none" >>, << "call.hangup", "none" >>,
      << "call.machine.detection.ended", "human" >>,
      << "call.machine.detection.ended", "not_sure" >> }

InitNoTransfer ==
    /\ InitStore([events |-> NoTransferEvents, max_events |-> MaxEvents, handlers |-> 1,
                  created_first |-> TRUE, stop |-> FALSE, dnc_ops |-> 0,
                  starts |-> 0, reset |-> FALSE], {})
    /\ campaign = set_campaign(CampaignAudio, "", << "+15551" >>, "sequential", 1)
    /\ worker = [NewWorker EXCEPT !.pc = "seq_check", !.numbers = << "+15551" >>,
                                  !.batch_size = 1]
    /\ dialer = [thread |-> "first", second |-> "none",
                 start |-> [x \in StartContexts |-> "idle"], starts |-> 0,
                 reset |-> "idle"]

NextNoTransfer ==
    \/ \E h \in HandlerIds, c \in CallIds, e \in NoTransferEvents :
          webhook(h, c, e[1], e[2])
    \/ \E t \in ThreadIds :
          \/ AnsweredGet(t) \/ AnsweredUpdate(t) \/ AnsweredArm(t)
          \/ FallbackFire(t) \/ FallbackPop(t)
          \/ AmdGet(t) \/ AmdCancel(t) \/ AmdReceived(t)
          \/ HumanUpdate(t) \/ HumanCas(t) \/ HumanNoTransfer(t) \/ hangup_call(t)
          \/ HangupCancel(t) \/ HangupActive(t) \/ HangupGet(t)
          \/ HangupUpdate(t) \/ HangupPersist(t) \/ HangupSignal(t)
    \/ SingleCallStep

SpecNoTransfer == InitNoTransfer /\ [][NextNoTransfer]_vars

\* SpecMedia: one call of a sequential campaign, its record created before the
\* first event; AMD machine, call.playback.ended, call.transcription (with a text or
\* with none) and call.hangup arrive in any order, MaxMediaEvents of them, handled
\* by up to MaxHandlers concurrent requests.
MaxMediaEvents == 3

MediaEvents ==
    { << "call.machine.detection.ended", "machine" >>,
      << "call.playback.ended", "none" >>, << "call.hangup", "none" >>,
      << "call.transcription", "hello" >>, << "call.transcription", "" >> }

InitMedia ==
    InitWith([events |-> MediaEvents, max_events |-> MaxMediaEvents,
              handlers |-> MaxHandlers, created_first |-> TRUE, stop |-> FALSE,
              dnc_ops |-> 0, starts |-> 0, reset |-> FALSE],
             << "+15551" >>, "sequential", 1, {})

\* The steps of the requests that handle the events of MediaEvents.
MediaRequestStep(t) ==
    \/ AmdGet(t) \/ AmdCancel(t) \/ AmdReceived(t)
    \/ MachineUpdate(t) \/ MachineCas(t) \/ play_audio(t) \/ MachineTranscript(t)
    \/ PlaybackGet(t) \/ PlaybackUpdate(t) \/ hangup_call(t)
    \/ Transcription(t)
    \/ HangupCancel(t) \/ HangupActive(t) \/ HangupGet(t)
    \/ HangupUpdate(t) \/ HangupPersist(t) \/ HangupSignal(t)

NextMedia ==
    \/ \E h \in HandlerIds, c \in CallIds, e \in MediaEvents : webhook(h, c, e[1], e[2])
    \/ \E t \in HandlerIds : MediaRequestStep(t)
    \/ SingleCallStep

SpecMedia == InitMedia /\ [][NextMedia]_vars

\* SpecUnknown: one call of a sequential campaign; call.answered, AMD human and
\* call.hangup arrive from the moment make_call has returned, MaxEvents of them,
\* each request handled to its end before the next arrives; an event that finds no
\* record carries the call's number, the transfer number or no number.
UnknownEvents ==
    { << "call.answered", "none" >>, << "call.hangup", "none" >>,
      << "call.machine.detection.ended", "human" >> }

InitUnknown ==
    InitWith([events |-> UnknownEvents, max_events |-> MaxEvents, handlers |-> 1,
              created_first |-> FALSE, stop |-> FALSE, dnc_ops |-> 0,
              starts |-> 0, reset |-> FALSE],
             << "+15551" >>, "sequential", 1, {})

NextUnknown ==
    \/ \E h \in HandlerIds, c \in CallIds, e \in UnknownEvents : webhook(h, c, e[1], e[2])
    \/ \E h \in HandlerIds, c \in CallIds, e \in UnknownEvents, n \in OtherNumbers :
          webhook_unknown(h, c, e[1], e[2], n)
    \/ \E t \in ThreadIds :
          \/ AutoCreate(t)
          \/ AnsweredGet(t) \/ AnsweredIgnore(t) \/ AnsweredUpdate(t) \/ AnsweredArm(t)
          \/ FallbackFire(t) \/ FallbackPop(t)
          \/ AmdGet(t) \/ AmdCancel(t) \/ AmdReceived(t)
          \/ HumanUpdate(t) \/ HumanCas(t) \/ (\E ok \in BOOLEAN : transfer_call(t, ok))
          \/ pause_for_transfer_add(t) \/ pause_for_transfer_clear(t)
          \/ HumanTransferred(t) \/ HumanTransferFailed(t) \/ HumanNoTransfer(t)
          \/ hangup_call(t)
          \/ HangupCancel(t) \/ HangupActive(t) \/ HangupResume(t) \/ HangupGet(t)
          \/ HangupUpdate(t) \/ HangupPersist(t) \/ HangupSignal(t)
    \/ \E t \in HandlerIds : LegSnapshot(t) \/ LegNext(t)
    \/ SingleCallStep

SpecUnknown == InitUnknown /\ [][NextUnknown]_vars

\* ------------------------------------------------------------ properties
\* C1: in every reachable state and for every call id, the record never has both
\* transferred = true and voicemail_dropped = true.
C1_NeverBothFlags ==
    \A c \in CallIds :
        ~(call_states[c].transferred /\ call_states[c].voicemail_dropped)

\* C2: for every call id, the transfer command is issued at most once over the
\* call's lifetime, whatever events are delivered for that id.
C2_AtMostOneTransfer == \A c \in CallIds : cmds[c].transfer <= 1

\* C3: a flag of a call record that has become true never returns to false (so
\* that each compare-and-set of a call id wins at most once).
C3_FlagsStayTrue ==
    [][\A c \in CallIds :
          /\ call_states[c].transferred => call_states'[c].transferred
          /\ call_states[c].voicemail_dropped => call_states'[c].voicemail_dropped]_vars

\* C4: no call is placed while a call id is pinned in the Transfer Gate: every
\* make_call request of the dial loop or of a batch's placing thread is made with
\* the pinned set empty.
C4_NoCallWhilePinned == \A i \in CallIds : ~placed[i].paused

\* A pin is in progress from pause_for_transfer's add to its clear of the event;
\* unpin and unpin-all are single steps.
PinInProgress == \E t \in ThreadIds : At(t, "h_clear")

\* C5: whenever no pin or unpin operation is in progress, the gate's signal is
\* open if and only if the pinned set is empty.
C5_SignalIffEmpty ==
    ~PinInProgress => (transfer_pause_event <=> active_transfer_cids = {})

\* No request is handling an event of call c, and every fallback timer armed for c
\* has been cancelled or has run to its end.
Settled(c) ==
    /\ \A h \in HandlerIds : thr[h].cid # c
    /\ \A t \in TimerIds : thr[t].cid = c => thr[t].pc \in {"unarmed", "cancelled", "done"}

\* Call c was answered, once or more often, and no other event arrived for it.
OnlyAnswered(c) ==
    /\ delivered[c] # << >>
    /\ \A k \in 1..Len(delivered[c]) : delivered[c][k][1] = "call.answered"

\* C6: for a call that is answered (once or more often) and gets no AMD event, once
\* the fallback deadline has passed exactly one transfer attempt has been made for
\* it and its record is tagged amd_result = "timeout".
C6_FallbackTransfersOnce ==
    \A c \in CallIds :
        (OnlyAnswered(c) /\ Settled(c)) =>
            (cmds[c].transfer = 1 /\ call_states[c].amd_result = "timeout")

\* An AMD result event of call c has arrived and its request has returned.
AmdHandled(c) ==
    /\ \E k \in 1..Len(delivered[c]) : delivered[c][k][1] = "call.machine.detection.ended"
    /\ \A h \in HandlerIds :
          ~(thr[h].cid = c /\ thr[h].ev = "call.machine.detection.ended")

\* C7: once the AMD result of a call has been handled, no fallback timer of that
\* call whose deadline passes afterwards takes the fallback's path: it issues no
\* command and changes no record.
C7_NoFallbackAfterAmd ==
    [][\A t \in TimerIds :
          (AmdHandled(thr[t].cid) /\ thr[t].pc = "armed") => thr'[t].pc # "h_upd"]_vars

\* C9: the history holds at most one entry per call id, however often the hangup
\* event of that id is handled.
C9_OneHistoryEntry ==
    \A c \in CallIds :
        Cardinality({k \in 1..Len(history) : history[k].call_id = c}) <= 1

\* Scenario A: initiated, answered, AMD human, in that order.
ScenarioA ==
    << << "call.initiated", "none" >>, << "call.answered", "none" >>,
       << "call.machine.detection.ended", "human" >> >>

\* C10: for a placed call that gets the events initiated, answered, AMD human in
\* that order, with the provider accepting the commands: exactly one transfer
\* command, to the configured transfer number, no play command, and the final
\* status "transferred".
C10_ScenarioA ==
    \A c \in CallIds :
        (delivered[c] = ScenarioA /\ Settled(c) /\ ~cmds[c].rejected) =>
            /\ cmds[c].transfer = 1
            /\ cmds[c].dest = _normalize_number(TransferNumber)
            /\ cmds[c].play = 0
            /\ call_states[c].status = "transferred"

\* Scenario B: initiated, answered, then AMD machine once or more often.
ScenarioB(c) ==
    /\ Len(delivered[c]) >= 3
    /\ delivered[c][1] = << "call.initiated", "none" >>
    /\ delivered[c][2] = << "call.answered", "none" >>
    /\ \A k \in 3..Len(delivered[c]) :
          delivered[c][k] = << "call.machine.detection.ended", "machine" >>

\* C11: for a placed call that gets the events initiated, answered and then AMD
\* machine (once or more often), exactly one play command is issued for it, with
\* the campaign's audio, and no transfer command is issued for it, not by the
\* fallback timer either.
C11_ScenarioB ==
    \A c \in CallIds :
        (ScenarioB(c) /\ Settled(c)) =>
            /\ cmds[c].play = 1
            /\ cmds[c].audio = CampaignAudio
            /\ cmds[c].transfer = 0

\* The batch of list position j: batches are consecutive runs of batch_size
\* positions, the last one shorter when the list does not divide evenly.
BatchOf(j) == ((j - 1) \div campaign.batch_size) + 1

\* C12: in simultaneous mode with no stop requested, the call of every list
\* position is placed in the batch window of its batch (positions 1..b in the
\* first window, the next b in the second, ...), and when the worker has marked the
\* campaign inactive every position has been called and dialed_count equals the
\* length of the list.
C12_SimultaneousBatches ==
    (campaign.dial_mode = "simultaneous" /\ ~campaign.stop_requested) =>
        /\ \A j \in 1..Total : placed[j].st # "no" => placed[j].win = BatchOf(j)
        /\ worker.pc = "done" =>
              /\ campaign.dialed_count = Total
              /\ \A j \in 1..Total : j \notin dnc_listed => placed[j].st # "no"

\* C13: in sequential mode no placing thread exists beside the loop, and every
\* call the loop requests after an earlier placed call is requested only after that
\* call's completion wait has ended, by its signal or by its timeout, and after the
\* delay between calls has run in full; the delay is left early only when a stop
\* was requested.
C13_SequentialPacing ==
    campaign.dial_mode = "sequential" =>
        /\ \A j \in CallIds : place[j] = "idle"
        /\ \A j \in 1..Total :
              (placed[j].st # "no" /\ \E k \in 1..(j - 1) : placed[k].st = "yes") =>
                  /\ placed[j].after_wait \in {"signal", "timeout"}
                  /\ placed[j].after_delay = "full"
        /\ worker.delay = "cut" => campaign.stop_requested

\* C13 happens: the second call of a sequential campaign was requested after the
\* first call's completion signal and the full delay.
C13_Witness ==
    /\ campaign.dial_mode = "sequential"
    /\ placed[1].st = "yes" /\ placed[2].st = "yes"
    /\ placed[2].after_wait = "signal" /\ placed[2].after_delay = "full"

\* C14: in simultaneous mode at most batch_size calls are requested within one
\* batch window, that is between one head-of-loop checkpoint of the dial loop and
\* the next.
C14_BatchWindowBound ==
    campaign.dial_mode = "simultaneous" =>
        \A w \in 1..(MaxNumbers + 1) :
            Cardinality({j \in 1..Total : placed[j].st # "no" /\ placed[j].win = w})
                <= campaign.batch_size

\* The dial loop is blocked inside wait_if_transfer_paused.
GateBlocked == worker.pc \in {"seq_blocked", "sim_blocked"}

\* C15: with pin, unpin and the dial loop's check-then-wait interleaved in any way
\* (no stop involved), the dial loop is never blocked on the gate while the pinned
\* set is empty: the unpin that empties the set releases it, and nothing but the
\* 1-hour timeout is left to release a loop blocked on an empty set.
C15_ReleasedWhenEmpty ==
    admin.pc = "idle" => ~(GateBlocked /\ active_transfer_cids = {})

\* C16: a dial loop that /stop finds blocked on the gate is not blocked any more
\* once /stop has made its two calls; from the moment of the stop request the loop
\* only leaves its wait, sees the stop at its re-check and ends, without requesting
\* another call; and the worker does terminate.
C16_StopReleasesBlockedLoop ==
    /\ [](admin.found_blocked =>
             \/ worker.pc \in {"seq_recheck", "sim_recheck", "complete", "done"}
             \/ (GateBlocked /\ admin.pc = "resume"))
    /\ (admin.found_blocked ~> worker.pc = "done")

\* C16 happens: a stop that found the loop blocked has returned and the worker has
\* ended.
C16_Witness ==
    admin.found_blocked /\ admin.pc = "done" /\ worker.pc = "done"

\* This step is a create_call_state for call id c: by the sequential loop, by a
\* placing thread of a batch, or by a webhook request that found no record.
CreateStepOn(c) ==
    \/ worker.pc = "seq_create" /\ worker.i = c /\ worker'.pc # "seq_create"
    \/ place[c] = "p_create" /\ place'[c] # "p_create"
    \/ \E h \in HandlerIds :
          thr[h].pc = "auto_create" /\ thr[h].cid = c /\ thr'[h].pc # "auto_create"

\* C17: a create_call_state for an id that already has a record leaves that record
\* as it is.
C17_CreateIdempotent ==
    [][\A c \in CallIds :
          (call_states[c].present /\ CreateStepOn(c)) => call_states'[c] = call_states[c]]_vars

\* C18: once the hangup event of a call has been handled to its end, the call's
\* record is in the history and the call id is no longer in the live call-state map.
C18_EvictedAfterHangup ==
    \A c \in CallIds :
        ((\E k \in 1..Len(delivered[c]) : delivered[c][k][1] = "call.hangup")
            /\ \A h \in HandlerIds : ~(thr[h].cid = c /\ thr[h].ev = "call.hangup")) =>
            /\ \E k \in 1..Len(history) : history[k].call_id = c
            /\ ~call_states[c].present

\* C19: in every state of the campaign configuration, stop_requested implies not
\* active, whatever the order of set_campaign, stop_campaign,
\* mark_campaign_complete and reset_campaign.
C19_StopImpliesInactive == campaign.stop_requested => ~campaign.active

\* C19 happens: a campaign was set and started, a stop was requested and the worker
\* has marked the campaign complete, the stop flag still standing.
C19_Witness ==
    /\ campaign.stop_requested /\ ~campaign.active
    /\ admin.pc = "done" /\ worker.pc = "done"

LegStep(h) ==
    /\ thr[h].pc \in {"leg_snap", "leg_next", "leg_upd", "leg_resume", "leg_signal"}
    /\ thr'[h] # thr[h]

\* C22: a request that handles an event of a transfer leg changes the record, the
\* pin and the completion signal of no call but the leg's parent.
C22_LegTouchesParentOnly ==
    [][\A h \in HandlerIds : LegStep(h) =>
          \A c \in CallIds \ {thr[h].cid} :
              /\ call_states'[c] = call_states[c]
              /\ (c \in active_transfer_cids') = (c \in active_transfer_cids)
              /\ (c \in call_complete_events') = (c \in call_complete_events)
              /\ (c \in complete_set') = (c \in complete_set)]_vars

\* The provider rejected the transfer command of call c.
TransferRejected(c) == cmds[c].transfer >= 1 /\ cmds[c].rejected

\* C23: when the transfer command of a call that won mark_transferred fails, then,
\* once the requests and timers working on the call have finished, its id is not
\* pinned in the gate, a hangup command has been sent for it, and its record has
\* the status "transfer_failed".
C23_TransferFailedTerminal ==
    \A c \in CallIds :
        (TransferRejected(c) /\ Settled(c)) =>
            /\ c \notin active_transfer_cids
            /\ cmds[c].hangup >= 1
            /\ call_states[c].status = "transfer_failed"

\* After a rejected transfer the id is not pinned and a hangup command was sent.
RejectedNotPinnedAndHungUp ==
    \A c \in CallIds :
        (TransferRejected(c) /\ Settled(c)) =>
            (c \notin active_transfer_cids /\ cmds[c].hangup >= 1)

\* The events of call c are those of one run of the human path and nothing else:
\* one AMD event with a result in rs, or call.answered only (the fallback).
HumanPathOnly(c, rs) ==
    \/ \E r \in rs : delivered[c] = << << "call.machine.detection.ended", r >> >>
    \/ OnlyAnswered(c)

\* C24: without a transfer number, once the human path of a call (AMD human, AMD
\* not_sure or the fallback timeout) has run to its end, no transfer command was
\* sent, the id is not pinned, a hangup command was sent and the record's status is
\* "human_no_transfer".
C24_NoTransferNumber ==
    \A c \in CallIds :
        (campaign.transfer_number = "" /\ HumanPathOnly(c, {"human", "not_sure"})
           /\ Settled(c)) =>
            /\ cmds[c].transfer = 0
            /\ c \notin active_transfer_cids
            /\ cmds[c].hangup >= 1
            /\ call_states[c].status = "human_no_transfer"

\* The same for AMD human and the fallback timeout alone.
NoTransferNumberHuman ==
    \A c \in CallIds :
        (campaign.transfer_number = "" /\ HumanPathOnly(c, {"human"}) /\ Settled(c)) =>
            /\ cmds[c].transfer = 0
            /\ c \notin active_transfer_cids
            /\ cmds[c].hangup >= 1
            /\ call_states[c].status = "human_no_transfer"

\* C25: under fair scheduling of the worker thread, whatever events are delivered
\* or missing, the dial loop ends and the campaign is marked inactive.
C25_DialLoopTerminates == <>(worker.pc = "done" /\ ~campaign.active)

\* C25 happens: the loop has reached the end of its list without a stop request,
\* the completion wait of its last call having timed out.
C25_Witness ==
    /\ worker.pc = "done" /\ ~campaign.active
    /\ ~campaign.stop_requested
    /\ worker.waited = "timeout"

\* The dial loop has dealt with position j: skipped it as listed, requested its
\* call, or started its placing thread.
Attempted(j) == j \in dnc_listed \/ placed[j].st # "no" \/ place[j] # "idle"

\* C26: a call whose make_call failed has no record and no completion signal
\* registered; its number is counted as dialed exactly once, as soon as the loop
\* has moved past it; the loop ends only at the end of its list or on a stop
\* request; and the campaign is active until the loop ends or a stop is requested.
C26_FailedCallContained ==
    \A c \in 1..Total :
        placed[c].st = "failed" =>
            /\ ~call_states[c].present
            /\ c \notin call_complete_events /\ c \notin complete_set
            /\ dialed_by[c] <= 1
            /\ (worker.i > c \/ worker.pc \in {"complete", "done"}) => dialed_by[c] = 1
            /\ (worker.pc \in {"complete", "done"} /\ ~campaign.stop_requested) =>
                   \A j \in 1..Total : Attempted(j)
            /\ (worker.pc # "done" /\ ~campaign.stop_requested) => campaign.active

\* C26 happens: the first call of a sequential campaign failed, was counted, and
\* the loop has requested the second call; the campaign is active.
C26_Witness ==
    /\ campaign.dial_mode = "sequential"
    /\ placed[1].st = "failed" /\ dialed_by[1] = 1
    /\ placed[2].st = "yes"
    /\ campaign.active

\* Request h handles call.answered or an AMD result and the record of its call has
\* transferred = True where the branch reads it, or h has read it so.
SeesTransferred(h) ==
    \/ /\ thr[h].pc \in {"ans_get", "amd_get"}
       /\ get_call_state(thr[h].cid).present /\ get_call_state(thr[h].cid).transferred
    \/ thr[h].pc = "ans_ignore"

\* C27: a request that handles call.answered or an AMD result and finds
\* transferred = True on the record sends no provider command, arms and cancels no
\* fallback timer, leaves the record's transferred and voicemail_dropped flags, its
\* AMD fields and the Transfer Gate as they are, and returns.
C27_TransferredIgnored ==
    [][\A h \in HandlerIds : (SeesTransferred(h) /\ thr'[h] # thr[h]) =>
          /\ thr'[h] = Idle \/ thr'[h].pc = "ans_ignore"
          /\ cmds' = cmds
          /\ amd_timers' = amd_timers /\ nAnswered' = nAnswered
          /\ \A t \in TimerIds : thr'[t] = thr[t]
          /\ call_states'[thr[h].cid].transferred = call_states[thr[h].cid].transferred
          /\ call_states'[thr[h].cid].voicemail_dropped
                = call_states[thr[h].cid].voicemail_dropped
          /\ call_states'[thr[h].cid].machine_detected
                = call_states[thr[h].cid].machine_detected
          /\ call_states'[thr[h].cid].amd_received = call_states[thr[h].cid].amd_received
          /\ call_states'[thr[h].cid].amd_result = call_states[thr[h].cid].amd_result
          /\ UNCHANGED gateVars]_vars

\* C27 happens: a call.answered request has found its call transferred, with a
\* transfer command already sent for it.
C27_Witness ==
    \E h \in HandlerIds :
        /\ thr[h].pc = "ans_ignore"
        /\ call_states[thr[h].cid].transferred
        /\ cmds[thr[h].cid].transfer >= 1

\* C28: a request that handles call.transcription appends one inbound entry with
\* the event's text at the end of the transcript of its call's record when the text
\* is not empty, and changes nothing else: not another field of the record, not
\* another record, the call log, the Transfer Gate, the completion registry, the
\* timers or the provider commands; then it returns.
C28_TranscriptionOnlyAppends ==
    [][\A h \in HandlerIds : (thr[h].pc = "tr_append" /\ thr'[h] # thr[h]) =>
          /\ call_states' =
                IF thr[h].res # "" /\ call_states[thr[h].cid].present
                THEN [call_states EXCEPT ![thr[h].cid].transcript =
                         Append(@, [text |-> thr[h].res, track |-> "inbound",
                                    is_final |-> TRUE])]
                ELSE call_states
          /\ thr'[h] = Idle
          /\ UNCHANGED << history, gateVars, registryVars, amd_timers, cmds, campaign >>]_vars

\* C28 happens: a transcription was stored behind the outbound entry of a voicemail
\* drop, in a record whose status is that of the drop.
C28_Witness ==
    \E c \in CallIds :
        /\ Len(call_states[c].transcript) = 2
        /\ call_states[c].transcript[1].track = "outbound"
        /\ call_states[c].transcript[2].text = "hello"
        /\ call_states[c].status = "voicemail_playing"

\* Request h handles call.playback.ended.
PlaybackStep(h) ==
    thr[h].ev = "call.playback.ended" /\ thr'[h] # thr[h] /\ thr[h].pc # "idle"

\* C29: a request that handles call.playback.ended goes on to set the status
\* "voicemail_complete" and to send the hangup command when the record it reads has
\* voicemail_dropped = True, and only then: otherwise it returns at once; apart
\* from that status and that command it changes nothing.
C29_PlaybackEnded ==
    [][\A h \in HandlerIds : PlaybackStep(h) =>
          LET c == thr[h].cid IN
          /\ thr[h].pc \in {"pb_get", "pb_upd", "h_hangup"}
          /\ thr[h].pc = "pb_get" =>
                /\ thr'[h] = IF call_states[c].present /\ call_states[c].voicemail_dropped
                             THEN [thr[h] EXCEPT !.pc = "pb_upd"] ELSE Idle
                /\ UNCHANGED << call_states, cmds >>
          /\ thr[h].pc = "pb_upd" =>
                /\ call_states' = [call_states EXCEPT ![c].status = "voicemail_complete"]
                /\ thr'[h].pc = "h_hangup"
                /\ cmds' = cmds
          /\ thr[h].pc = "h_hangup" =>
                /\ cmds' = [cmds EXCEPT ![c].hangup = @ + 1]
                /\ thr'[h] = Idle
                /\ call_states' = call_states
          /\ UNCHANGED << history, gateVars, registryVars, amd_timers, campaign >>]_vars

\* C29 happens: after a voicemail drop, playback.ended has been handled to its end.
C29_Witness ==
    \E c \in CallIds :
        /\ call_states[c].voicemail_dropped
        /\ call_states[c].status = "voicemail_complete"
        /\ cmds[c].hangup >= 1
        /\ \A h \in HandlerIds : thr[h].pc = "idle"

\* C30: when a call.hangup request writes its update to a record, a record whose
\* status is "transferred" or "voicemail_complete" keeps that status, a record in
\* any other status gets the status "hangup", and the hangup cause is recorded in
\* both cases.
C30_HangupClassification ==
    [][\A h \in HandlerIds :
          (thr[h].pc = "hu_upd" /\ thr'[h] # thr[h] /\ call_states[thr[h].cid].present) =>
              LET c == thr[h].cid IN
              /\ call_states'[c].status =
                    IF call_states[c].status \in {"transferred", "voicemail_complete"}
                    THEN call_states[c].status ELSE "hangup"
              /\ call_states'[c].hangup_cause = HangupCause]_vars

\* Request h takes a step.
HandlerStep(h) == thr[h].pc # "idle" /\ thr'[h] # thr[h]

\* C31: (a) a request creates the record of an unknown id only for an event that
\* carries a number which does not match the transfer number, and the record then
\* has the status "initiated"; records are otherwise created by the dial loop only;
\* (b) a request handling an event classified as a transfer leg creates no record;
\* (c) a request handling an event without a number, for an id that has no record,
\* changes no record, timer, gate, registry or call log and sends no command.
C31_UnknownIdRule ==
    [][/\ \A h \in HandlerIds : (HandlerStep(h) /\ thr[h].pc = "auto_create") =>
             /\ thr[h].num # "" /\ ~matches_transfer_number(thr[h].num)
             /\ call_states'[thr[h].cid].present
             /\ call_states'[thr[h].cid].status = "initiated"
       /\ \A c \in CallIds : (~call_states[c].present /\ call_states'[c].present) =>
             \/ worker.pc = "seq_create" /\ worker.i = c
             \/ place[c] = "p_create"
             \/ \E h \in HandlerIds : thr[h].pc = "auto_create" /\ thr[h].cid = c
       /\ \A h \in HandlerIds :
             (HandlerStep(h) /\ thr[h].pc \in {"leg_snap", "leg_next", "leg_upd",
                                               "leg_resume", "leg_signal"}) =>
                 \A c \in CallIds : call_states'[c].present = call_states[c].present
       /\ \A h \in HandlerIds :
             (HandlerStep(h) /\ thr[h].num = "" /\ ~call_states[thr[h].cid].present) =>
                 /\ UNCHANGED << call_states, history, gateVars, registryVars, amd_timers,
                                 cmds >>
                 /\ \A t \in TimerIds : thr'[t] = thr[t]]_vars

\* The record of an unknown id is created by a request only for an event with a
\* number that does not match the transfer number, and never by a leg's request.
UnknownIdCreation ==
    [][/\ \A h \in HandlerIds : (HandlerStep(h) /\ thr[h].pc = "auto_create") =>
             /\ thr[h].num # "" /\ ~matches_transfer_number(thr[h].num)
             /\ call_states'[thr[h].cid].present
             /\ call_states'[thr[h].cid].status = "initiated"
       /\ \A c \in CallIds : (~call_states[c].present /\ call_states'[c].present) =>
             \/ worker.pc = "seq_create" /\ worker.i = c
             \/ place[c] = "p_create"
             \/ \E h \in HandlerIds : thr[h].pc = "auto_create" /\ thr[h].cid = c
       /\ \A h \in HandlerIds :
             (HandlerStep(h) /\ thr[h].pc \in {"leg_snap", "leg_next", "leg_upd",
                                               "leg_resume", "leg_signal"}) =>
                 \A c \in CallIds : call_states'[c].present = call_states[c].present]_vars

\* The id that a step of a request at its signal_call_complete call signals.
SignalledIds ==
    { thr[h].cid : h \in {x \in HandlerIds : thr[x].pc = "hu_signal"} }
        \cup { legs.key[h] : h \in {x \in HandlerIds : thr[x].pc = "leg_signal"} }

\* C32: the registry changes only by register(id), which leaves id registered with
\* an unset signal, or by signal(id), which sets the signal of id when it is
\* registered and removes it; neither touches another id, and signal(id) with
\* nothing registered changes nothing; a signal that has fired is not registered
\* any more, so it cannot fire again.
C32_CompletionRegistry ==
    /\ [](complete_set \cap call_complete_events = {})
    /\ [][registryVars' # registryVars =>
            \/ /\ worker.pc = "seq_register"
               /\ call_complete_events' = call_complete_events \cup {worker.i}
               /\ complete_set' = complete_set \ {worker.i}
            \/ \E c \in SignalledIds :
                  /\ c \in call_complete_events
                  /\ call_complete_events' = call_complete_events \ {c}
                  /\ complete_set' = complete_set \cup {c}]_vars

\* C32 happens: the signal of the call the sequential loop is waiting for has
\* fired and is no longer registered, and a later signal for the same id has been
\* made with nothing registered.
C32_Witness ==
    \E c \in CallIds :
        /\ c \in complete_set /\ c \notin call_complete_events
        /\ Cardinality({k \in 1..Len(delivered[c]) : delivered[c][k][1] = "call.hangup"}) = 2
        /\ \A h \in HandlerIds : thr[h].pc = "idle"

\* The state that the storage locks protect: `lock` guards the call states, the
\* campaign, the do-not-call list and the set of pinned ids, `_file_lock` the
\* history file, `_call_complete_lock` the completion registry.
LockedVars == << call_states, campaign, dnc, active_transfer_cids, history,
                 call_complete_events >>

\* A step that sends a command to the provider: make_call, or one of the commands
\* counted per call.
CommandStep == cmds' # cmds \/ placed' # placed

\* Thread t is executing the webhook or _amd_fallback: a request that has begun, or
\* a timer past its deadline.
Running(t) == thr[t].pc \notin {"idle", "unarmed", "armed", "cancelled", "done"}

\* Thread t is inside the webhook or _amd_fallback and cannot continue.
HandlerBlocked(t) == Running(t) /\ ~ENABLED (AutoCreate(t) \/ RequestStep(t))

\* C33: a storage lock is held only inside one storage operation, which is one step;
\* a step that sends a provider command changes nothing that a storage lock
\* protects, so no command is sent from inside a locked region; and a request or
\* timer thread that has begun can always take its next step, whatever the dial
\* worker and the Transfer Gate are doing.
C33_NoCommandUnderLock ==
    /\ [][CommandStep => UNCHANGED LockedVars]_vars
    /\ [](\A t \in ThreadIds : ~HandlerBlocked(t))

\* C33 witness: the worker is blocked on the completion wait while a request is about
\* to send the transfer command.
C33_Witness ==
    /\ worker.pc = "seq_waitc"
    /\ \E h \in HandlerIds : thr[h].pc = "h_transfer"

\* A call.hangup event of call c has been handled to its end: one was delivered and
\* no request is still inside the call.hangup branch for c.
HangupHandled(c) ==
    /\ \E i \in 1..Len(delivered[c]) : delivered[c][i][1] = "call.hangup"
    /\ \A h \in HandlerIds :
          ~(thr[h].pc # "idle" /\ thr[h].cid = c /\ thr[h].ev = "call.hangup")

\* A step of _amd_fallback run by timer thread t.
FallbackStep(t) == IsTimer(t) /\ Running(t) /\ thr'[t] # thr[t]

\* C34: once call.hangup has been handled for an id, a step of that id's AMD
\* fallback sends no command and changes neither the call states nor the Transfer
\* Gate.
C34_NoFallbackAfterHangup ==
    [][\A t \in TimerIds :
          FallbackStep(t) /\ HangupHandled(thr[t].cid)
              => /\ cmds' = cmds
                 /\ call_states' = call_states
                 /\ gateVars' = gateVars]_vars

\* Thread t is on the human path after `transfer_num and mark_transferred(id)` was
\* false with a transfer number configured: the compare-and-set was lost.  (A
\* thread that won carries the transfer number in tn.)
LostCas(t) ==
    /\ campaign.transfer_number # ""
    /\ thr[t].tn = ""
    /\ \/ thr[t].ev = "fallback" /\ thr[t].pc \in {"h_none_upd", "h_hangup"}
       \/ /\ thr[t].ev = "call.machine.detection.ended"
          /\ thr[t].res = "not_sure"
          /\ thr[t].pc = "h_hangup"

\* C35: a thread that lost the mark_transferred compare-and-set sends no hangup
\* command for the call and leaves the status of its record alone.
C35_CasLoserStaysOut ==
    [][\A t \in ThreadIds :
          LostCas(t) /\ thr'[t] # thr[t]
              => /\ cmds'[thr[t].cid].hangup = cmds[thr[t].cid].hangup
                 /\ call_states'[thr[t].cid].status = call_states[thr[t].cid].status]_vars

\* Number n is on the list of the campaign now installed.
InCurrentCampaign(n) == \E i \in 1..Len(campaign.numbers) : campaign.numbers[i] = n

\* The worker is dialing a list that is not the installed campaign's: it was started
\* for an earlier campaign.
LeftoverWorker == FirstAlive /\ worker.pc # "begin" /\ worker.numbers # campaign.numbers

\* C36: once a campaign has been installed and started, every make_call is for a
\* number of the installed campaign, and a worker left over from an earlier campaign
\* neither dials from its old list nor marks the installed campaign inactive.
C36_CurrentCampaignOnly ==
    [][/\ \A c \in CallIds :
             placed'[c] # placed[c] => InCurrentCampaign(placed'[c].arg)
       /\ LeftoverWorker /\ worker.pc = "complete" /\ worker'.pc = "done"
             => campaign'.active = campaign.active]_vars

\* C37: in every state dialed_count is at most the length of the installed
\* campaign's number list, across campaign starts, stop and the worker's loop.
\* (States after a reset_campaign, which the claim does not list, are left out.)
C37_DialedCountBounded ==
    dialer.reset = "idle" => campaign.dialed_count <= Len(campaign.numbers)

\* C38: in sequential mode the completion wait of a call does not end by its
\* timeout once the call's hangup event has been handled, wherever the handler's
\* signal_call_complete falls among the loop's make_call, register and wait.
C38_NoLostWakeup ==
    [][worker.pc = "seq_waitc" /\ worker'.pc = "seq_inc" /\ worker'.waited = "timeout"
           => ~HangupHandled(worker.i)]_vars

\* C39: every id pinned in the Transfer Gate has a record in call_states and the
\* record's transferred flag is set.
C39_PinnedHasTransferredRecord ==
    \A c \in active_transfer_cids :
        get_call_state(c).present /\ get_call_state(c).transferred

\* The timers of call c that are armed: started, not cancelled, deadline not reached.
ArmedTimers(c) == { t \in TimerIds : thr[t].cid = c /\ thr[t].pc = "armed" }

\* C40: a call id has at most one armed fallback timer, and the handle that
\* _amd_timers holds for the id is that timer, so that a cancel through the table
\* reaches every timer that can still fire.
C40_OneArmedTimer ==
    \A c \in CallIds :
        /\ Cardinality(ArmedTimers(c)) <= 1
        /\ \A t \in ArmedTimers(c) : amd_timers[c] = t

\* A call.hangup event of call c has been delivered.
HangupDelivered(c) ==
    \E k \in 1..Len(delivered[c]) : delivered[c][k][1] = "call.hangup"

\* C21: once the hangup of a call has been handled and every request and timer
\* working on that call has finished, the call id is not pinned in the gate.
C21_NoGateLeak ==
    \A c \in CallIds :
        (HangupDelivered(c) /\ Settled(c)) => c \notin active_transfer_cids

\* C8: for every list position whose number was on the DNC list when the dial loop
\* (or the placing thread of its batch) checked it, make_call is never requested
\* for that position, dialed_count advances at most once for it, and exactly once
\* by the time the loop has moved past it.
C8_DncSkipped ==
    \A i \in dnc_listed :
        /\ placed[i].st = "no"
        /\ dialed_by[i] <= 1
        /\ (worker.i > i \/ worker.pc = "done") => dialed_by[i] = 1

\* C8 happens: under each pacing a DNC-listed position has been passed without a
\* call and counted once, while another position of the list was called.
C8_Witness ==
    \E i \in dnc_listed, j \in CallIds :
        /\ worker.pc = "done"
        /\ campaign.dial_mode = "simultaneous"
        /\ placed[i].st = "no" /\ dialed_by[i] = 1
        /\ placed[j].st = "yes"
        /\ campaign.dialed_count = Total

====
